---------------------------- MODULE Spec2Model ----------------------------
(***************************************************************************)
(* A model of the native backends of hidapi-rs.                            *)
(*                                                                         *)
(*   SpecParse  parse_hid_vid_pid (src/linux_native.rs) applied to HID_ID  *)
(*              strings.                                                   *)
(*   SpecScan   the report-descriptor usage iterator and the DeviceInfo    *)
(*              vector device_to_hid_device_info builds from it            *)
(*              (src/linux_native.rs).                                     *)
(*   Spec       one opened HidDevice of the backend selected at build      *)
(*              time: the Linux hidraw backend (src/linux_native.rs) or    *)
(*              the Windows overlapped-I/O backend                         *)
(*              (src/windows_native/mod.rs, types.rs, error.rs).           *)
(*                                                                         *)
(* The three specifications share the variable list; each one keeps the    *)
(* variables of the other two at their idle values.                        *)
(***************************************************************************)
EXTENDS Integers, Sequences, FiniteSets, TLC

VARIABLES
    \* ---- SpecParse
    str,            \* the HID_ID property value, a sequence of characters
    parsed,         \* "todo" before the call, then the Option parse_hid_vid_pid returned
    \* ---- SpecScan
    desc,           \* the bytes read from <syspath>/device/report_descriptor
    node,           \* the hidraw node: do its udev properties resolve, is the file readable
    iter,           \* a UsageIterator being drained: initial, usage_page, pos, state
    yielded,        \* the pairs UsageIterator::next has returned so far
    infos,          \* what device_to_hid_device_info returned for the node
    dev_info,       \* what opening an enumerated path and get_device_info returned
    \* ---- Spec (one opened HidDevice)
    backend,        \* "linux" | "windows": the cfg_if! selection in lib.rs
    pc,             \* lifecycle of the HidDevice
    dropSlot,       \* the slot the Windows Drop loop is at
    blocking,       \* HidDevice.blocking
    read_pending,   \* HidDevice.read_pending (Windows)
    slot,           \* Windows: read/write/feature AsyncState and the kernel's view of it
    devQueue,       \* input reports the kernel holds for this handle
    connected,      \* whether the device is still attached
    sent,           \* number of input reports the device has sent
    last,           \* what the last API call did and returned
    delivered,      \* sequence numbers of the reports handed to callers
    \* ---- SpecContext (the process-wide context and its HidApi instances)
    ctx,            \* CONTEXT_STATE, the attached devices, the instances, the last call
    \* ---- SpecWriter (one DescriptorWriter)
    enc,            \* the bytes written, and the last write and its result
    \* ---- SpecReconstruct (one call of reconstruct_descriptor)
    rec,            \* the preparsed data, the tables built and the position in the function
    \* ---- SpecOpen (Windows: enumerate_devices and open_path)
    opn             \* the interfaces, the OS calls made so far and what the call returned

parseVars == <<str, parsed>>
scanVars  == <<desc, node, iter, yielded, infos, dev_info>>
devVars   == <<backend, pc, dropSlot, blocking, read_pending, slot, devQueue,
               connected, sent, last, delivered>>
restVars  == <<ctx, enc, rec, opn>>
vars      == <<parseVars, scanVars, devVars, restVars>>

None == [tag |-> "None"]
Ok(v) == [tag |-> "Ok", val |-> v]
Err(e) == [tag |-> "Err", err |-> e]
IsOk(r) == r.tag = "Ok"
Some(v) == [tag |-> "Some", val |-> v]

Min(a, b) == IF a < b THEN a ELSE b

RECURSIVE Concat(_)
Concat(ss) == IF ss = <<>> THEN <<>> ELSE Head(ss) \o Concat(Tail(ss))

(***************************************************************************)
(* Idle values of the variable groups a specification does not use.        *)
(***************************************************************************)
ParseIdle ==
    /\ str = <<>>
    /\ parsed = [tag |-> "idle"]

ScanIdle ==
    /\ desc = <<>>
    /\ node = [props_ok |-> FALSE, readable |-> FALSE]
    /\ iter = [initial |-> TRUE, usage_page |-> 0, pos |-> 0, state |-> "idle"]
    /\ yielded = <<>>
    /\ infos = [tag |-> "idle"]
    /\ dev_info = [tag |-> "idle"]

DevIdle ==
    /\ backend = "none"
    /\ pc = "idle"
    /\ dropSlot = 0
    /\ blocking = TRUE
    /\ read_pending = FALSE
    /\ slot = <<>>
    /\ devQueue = <<>>
    /\ connected = TRUE
    /\ sent = 0
    /\ last = [op |-> "none"]
    /\ delivered = <<>>

\* The value a variable of an unused specification keeps.
IdleValue == [k |-> "idle"]

RestIdle ==
    /\ ctx = IdleValue
    /\ enc = IdleValue
    /\ rec = IdleValue
    /\ opn = IdleValue

(***************************************************************************)
(*                     parse_hid_vid_pid  (SpecParse)                      *)
(***************************************************************************)

\* Bounds of the HID_ID strings drawn: a string is the concatenation of at most
\* MaxPieces pieces.
MaxPieces == 5

Pieces ==
    { <<"1">>, <<"0", "0", "1", "7">>, <<"f", "F", "F", "f">>,
      <<"1", "0", "0", "0", "0">>, <<":">>, <<"+">>, <<"g">> }

HidIdStrings ==
    { Concat(ps) : ps \in UNION { [1..n -> Pieces] : n \in 0..MaxPieces } }

\* u16::MAX
U16Max == 65535

\* char::to_digit(16): the digit's value, or -1 for a character that is no
\* hexadecimal digit.
ToDigit16(c) ==
    CASE c = "0" -> 0 [] c = "1" -> 1 [] c = "2" -> 2 [] c = "3" -> 3
      [] c = "4" -> 4 [] c = "5" -> 5 [] c = "6" -> 6 [] c = "7" -> 7
      [] c = "8" -> 8 [] c = "9" -> 9
      [] c \in {"a", "A"} -> 10 [] c \in {"b", "B"} -> 11
      [] c \in {"c", "C"} -> 12 [] c \in {"d", "D"} -> 13
      [] c \in {"e", "E"} -> 14 [] c \in {"f", "F"} -> 15
      [] OTHER -> -1

\* The digit loop of from_str_radix: acc * 16 + digit with checked arithmetic;
\* "Err" on a character that is no digit and on overflow of the u16.
RECURSIVE AccumulateDigits(_, _)
AccumulateDigits(digits, acc) ==
    IF digits = <<>> THEN Ok(acc)
    ELSE LET d == ToDigit16(Head(digits))
         IN  IF d < 0 THEN Err("InvalidDigit")
             ELSE IF acc * 16 + d > U16Max THEN Err("PosOverflow")
             ELSE AccumulateDigits(Tail(digits), acc * 16 + d)

\* u16::from_str_radix(src, 16): Err on the empty string and on a sign alone,
\* an optional leading '+' (an unsigned type takes no '-'), then the digits.
U16FromStrRadix16(src) ==
    IF src = <<>> THEN Err("Empty")
    ELSE IF Len(src) = 1 /\ Head(src) \in {"+", "-"} THEN Err("InvalidDigit")
    ELSE IF Head(src) = "+" THEN AccumulateDigits(Tail(src), 0)
    ELSE AccumulateDigits(src, 0)

\* str::split(':'): the fields between the separators, empty ones included;
\* the empty string splits into one empty field.
RECURSIVE SplitColon(_, _)
SplitColon(s, cur) ==
    IF s = <<>> THEN <<cur>>
    ELSE IF Head(s) = ":" THEN <<cur>> \o SplitColon(Tail(s), <<>>)
    ELSE SplitColon(Tail(s), Append(cur, Head(s)))

\* Mutant: a field that fails to parse counts as 0.
parse_hid_vid_pid_lenient(s) ==
    LET elems == [i \in 1..Len(SplitColon(s, <<>>)) |->
                     U16FromStrRadix16(SplitColon(s, <<>>)[i])]
        v(i) == IF IsOk(elems[i]) THEN elems[i].val ELSE 0
    IN  IF Len(elems) # 3 THEN None ELSE Some(<<v(1), v(2), v(3)>>)

\* parse_hid_vid_pid: split at ':', parse every field as a hexadecimal u16,
\* None unless there are exactly three fields and all of them parsed.
parse_hid_vid_pid(s) ==
    LET elems == [i \in 1..Len(SplitColon(s, <<>>)) |->
                     U16FromStrRadix16(SplitColon(s, <<>>)[i])]
    IN  IF Len(elems) # 3 \/ \E i \in 1..Len(elems) : ~IsOk(elems[i])
        THEN None
        ELSE Some(<<elems[1].val, elems[2].val, elems[3].val>>)

InitParse ==
    /\ str \in HidIdStrings
    /\ parsed = [tag |-> "todo"]
    /\ ScanIdle
    /\ DevIdle
    /\ RestIdle

\* device_to_hid_device_info hands the HID_ID property to parse_hid_vid_pid.
ParseHidId ==
    /\ parsed = [tag |-> "todo"]
    /\ parsed' = parse_hid_vid_pid(str)
    /\ UNCHANGED <<str, scanVars, devVars, restVars>>

NextParse == ParseHidId

SpecParse == InitParse /\ [][NextParse]_vars

(***************************************************************************)
(* C10.  The shape of a HID_ID string, stated on the characters and not    *)
(* with the parser's own split and digit loop.                             *)
(***************************************************************************)
HexDigitChars ==
    {"0", "1", "2", "3", "4", "5", "6", "7", "8", "9",
     "a", "b", "c", "d", "e", "f", "A", "B", "C", "D", "E", "F"}

ColonPositions(s) == { i \in 1..Len(s) : s[i] = ":" }

\* The three fields of a string with exactly two colons.
FieldsOf(s) ==
    LET p == CHOOSE i \in ColonPositions(s) : \A j \in ColonPositions(s) : i <= j
        q == CHOOSE i \in ColonPositions(s) : \A j \in ColonPositions(s) : j <= i
    IN  <<SubSeq(s, 1, p - 1), SubSeq(s, p + 1, q - 1), SubSeq(s, q + 1, Len(s))>>

IsHexNumber(f) == Len(f) >= 1 /\ \A i \in 1..Len(f) : f[i] \in HexDigitChars

RECURSIVE Pow16(_)
Pow16(n) == IF n = 0 THEN 1 ELSE 16 * Pow16(n - 1)

RECURSIVE PositionalSum(_, _)
PositionalSum(f, i) ==
    IF i > Len(f) THEN 0
    ELSE ToDigit16(f[i]) * Pow16(Len(f) - i) + PositionalSum(f, i + 1)

\* A field without its leading zeros; the number it writes fits 16 bits exactly
\* when at most four digits are left.
RECURSIVE StripZeros(_)
StripZeros(f) == IF f # <<>> /\ f[1] = "0" THEN StripZeros(Tail(f)) ELSE f

FitsU16(f) == Len(StripZeros(f)) <= 4

\* The number a field of hexadecimal digits writes (used on fields that fit 16
\* bits only: the model checker's integers have 32).
HexValue(f) == PositionalSum(StripZeros(f), 1)

StripPlus(f) == IF f # <<>> /\ f[1] = "+" THEN Tail(f) ELSE f

\* H1:H2:H3 with every Hi a hexadecimal number.
IsHexTriple(s) ==
    /\ Cardinality(ColonPositions(s)) = 2
    /\ \A k \in 1..3 : IsHexNumber(FieldsOf(s)[k])

\* H1:H2:H3 with every Hi an optional '+' and a hexadecimal number that fits
\* 16 bits.
IsU16HexTriple(s) ==
    /\ Cardinality(ColonPositions(s)) = 2
    /\ \A k \in 1..3 :
          /\ IsHexNumber(StripPlus(FieldsOf(s)[k]))
          /\ FitsU16(StripPlus(FieldsOf(s)[k]))

ParseDone == parsed.tag \in {"None", "Some"}

ValueLen == 5

\* The bytes descriptors are drawn from: Usage Page (1 data byte), Usage
\* (1 data byte), Usage (no data), Collection (no data), Input (no data) and a
\* long-item key.  A data byte is any of them too.
DescBytes == {5, 9, 8, 160, 128, 254}

Descriptors == UNION { [1..n -> DescBytes] : n \in 0..ValueLen }

\* HidrawReportDescriptor::from_syspath: read() fills the front of the zeroed
\* value array; usages() hands the whole array to the iterator.
ValueOf(d) == [i \in 1..ValueLen |-> IF i <= Len(d) THEN d[i] ELSE 0]

Panic == [tag |-> "Panic"]

\* hid_item_size: (data_len, key_size) of the item at the head of the slice; a
\* long-item key reads the next byte as the data length.  `!desc.is_empty()`
\* holds of every slice the loop passes, so desc[1] is read unguarded.
hid_item_size(d) ==
    LET key == d[1]
    IN  IF key \div 16 = 15
        THEN IF Len(d) < 2 THEN Panic ELSE Some(<<d[2], 3>>)
        ELSE IF key % 4 = 3 THEN Some(<<4, 1>>) ELSE Some(<<key % 4, 1>>)

\* hid_report_bytes: the little-endian value of the item's data bytes, 0 when
\* the slice is too short to hold them.
hid_report_bytes(d, num_bytes) ==
    IF num_bytes >= Len(d) THEN 0
    ELSE CASE num_bytes = 0 -> 0
           [] num_bytes = 1 -> d[2]
           [] num_bytes = 2 -> d[2] + 256 * d[3]
           [] num_bytes = 4 -> d[2] + 256 * d[3] + 65536 * d[4] + 16777216 * d[5]

AsU16(v) == v % 65536

\* The main items that unset the local usage without yielding: Input, Output,
\* Feature, End Collection.
DiscardingCmds == {128, 144, 176, 192}

\* Mutant: the main items leave the pending usage in place.
usage_after_item_keeps(key_cmd, d, data_len, usage) ==
    IF key_cmd = 8 THEN Some(AsU16(hid_report_bytes(d, data_len)))
    ELSE IF key_cmd = 160 THEN None
    ELSE usage

\* The local `usage` after the match on key_cmd.
usage_after_item(key_cmd, d, data_len, usage) ==
    IF key_cmd = 8 THEN Some(AsU16(hid_report_bytes(d, data_len)))
    ELSE IF key_cmd = 160 \/ key_cmd \in DiscardingCmds THEN None
    ELSE usage

\* The while loop of next_hid_usage over the slice d.
RECURSIVE next_hid_usage_loop(_, _, _, _, _)
next_hid_usage_loop(d, initial, usage_page, usage, advanced) ==
    IF d = <<>>
    THEN IF initial /\ usage # None
         THEN Some(<<usage_page, usage.val, advanced>>)
         ELSE None
    ELSE LET key_cmd == d[1] - (d[1] % 4)
             size == hid_item_size(d)
         IN  IF size = Panic THEN Panic
             ELSE LET data_len == size.val[1]
                      key_size == size.val[2]
                      page == IF key_cmd = 4
                              THEN AsU16(hid_report_bytes(d, data_len))
                              ELSE usage_page
                      pair == IF key_cmd = 160 /\ usage # None
                              THEN Some(<<page, usage.val>>)
                              ELSE None
                      usage2 == usage_after_item(key_cmd, d, data_len, usage)
                      adv == advanced + data_len + key_size
                  IN  IF data_len + key_size > Len(d) THEN Panic
                      ELSE IF pair # None
                      THEN Some(<<pair.val[1], pair.val[2], adv>>)
                      ELSE next_hid_usage_loop(
                               SubSeq(d, data_len + key_size + 1, Len(d)),
                               initial, page, usage2, adv)

next_hid_usage(d, initial, usage_page) ==
    next_hid_usage_loop(d, initial, usage_page, None, 0)

\* The slice UsageIterator.value of an iterator at offset pos.
SliceAt(d, pos) == SubSeq(ValueOf(d), pos + 1, ValueLen)

\* UsageIterator::next: the iterator after the call and what the call returned.
UsageIterator_next(d, it) ==
    LET r == next_hid_usage(SliceAt(d, it.pos), it.initial, it.usage_page)
    IN  IF r = Panic THEN [it |-> [it EXCEPT !.state = "panicked"], ret |-> Panic]
        ELSE IF r = None THEN [it |-> [it EXCEPT !.state = "done"], ret |-> None]
        ELSE [it |-> [initial |-> FALSE, usage_page |-> r.val[1],
                      pos |-> it.pos + r.val[3], state |-> "running"],
              ret |-> Some(<<r.val[1], r.val[2]>>)]

\* descriptor.usages()
usages == [initial |-> TRUE, usage_page |-> 0, pos |-> 0, state |-> "running"]

\* `for (usage_page, usage) in usages`: every remaining pair, or Panic.
RECURSIVE CollectRest(_, _, _)
CollectRest(d, it, acc) ==
    LET n == UsageIterator_next(d, it)
    IN  IF n.ret = Panic THEN Panic
        ELSE IF n.ret = None THEN Ok(acc)
        ELSE CollectRest(d, n.it, Append(acc, n.ret.val))

\* device_to_hid_device_info from line 139 on: the DeviceInfo vector, one
\* record per (usage_page, usage) the descriptor yields, and the plain info
\* alone when the descriptor cannot be read.  A DeviceInfo is kept as its
\* (usage_page, usage), the only fields that differ between the records.
infos_of_descriptor(d, is_readable) ==
    IF is_readable
    THEN LET first == UsageIterator_next(d, usages)
         IN  IF first.ret = Panic THEN Panic
             ELSE IF first.ret = None THEN Some(<<>>)
             ELSE LET rest == CollectRest(d, first.it, <<first.ret.val>>)
                  IN  IF rest = Panic THEN Panic ELSE Some(rest.val)
    ELSE Some(<< <<0, 0>> >>)

\* device_to_hid_device_info: None when the hid parent, HID_ID, the bus type,
\* HID_NAME, HID_UNIQ or the devnode is missing.
device_to_hid_device_info(d, n) ==
    IF ~n.props_ok THEN None ELSE infos_of_descriptor(d, n.readable)

InitScan ==
    /\ node \in [props_ok : BOOLEAN, readable : BOOLEAN]
    /\ desc \in (IF node.props_ok /\ node.readable THEN Descriptors ELSE {<<>>})
    /\ iter = usages
    /\ yielded = <<>>
    /\ infos = [tag |-> "todo"]
    /\ dev_info = [tag |-> "todo"]
    /\ ParseIdle
    /\ DevIdle
    /\ RestIdle

\* One call of UsageIterator::next by a caller that drains the iterator
\* (collect(), a for loop): it stops at the first None.
UsagesNext ==
    /\ iter.state = "running"
    /\ LET n == UsageIterator_next(desc, iter)
       IN  /\ iter' = n.it
           /\ yielded' = IF n.ret.tag = "Some" THEN Append(yielded, n.ret.val)
                         ELSE yielded
    /\ UNCHANGED <<desc, node, infos, dev_info, parseVars, devVars, restVars>>

\* get_hid_device_info_vector calls device_to_hid_device_info for the node.
DeviceToHidDeviceInfo ==
    /\ infos.tag = "todo"
    /\ infos' = device_to_hid_device_info(desc, node)
    /\ UNCHANGED <<desc, node, iter, yielded, dev_info, parseVars, devVars, restVars>>

\* The results of open(2) and ioctl(HIDIOCGRDESCSIZE) on the devnode.
OpenResults == {"ok", "open_failed", "ioctl_failed"}

\* HidDevice::open_path: the device, or HidApiError when open or the ioctl
\* fails.
HidDevice_open_path(os) ==
    IF os = "ok" THEN Ok("HidDevice") ELSE Err("HidApiError")

\* HidDevice::get_device_info: the udev device of the descriptor's st_rdev is
\* the node that was opened; the first element of its DeviceInfo vector.
HidDevice_get_device_info(d, n) ==
    LET v == device_to_hid_device_info(d, n)
    IN  IF v = Panic THEN Panic
        ELSE IF v = None THEN Err("HidApiError")
        ELSE IF Len(v.val) = 0 THEN Panic
        ELSE Ok(v.val[1])

\* A caller takes entry k of the enumeration, opens its path and asks the
\* device for its DeviceInfo.
GetDeviceInfo ==
    /\ infos.tag = "Some"
    /\ dev_info.tag = "todo"
    /\ \E k \in 1..Len(infos.val), os \in OpenResults :
          dev_info' = [tag |-> "done", entry |-> k,
                       ret |-> IF IsOk(HidDevice_open_path(os))
                               THEN HidDevice_get_device_info(desc, node)
                               ELSE HidDevice_open_path(os)]
    /\ UNCHANGED <<desc, node, iter, yielded, infos, parseVars, devVars, restVars>>

\* A caller opens the devnode of a node for which the enumeration listed no
\* entry (HidApi::open_path with the path of the hidraw node) and asks the
\* device for its DeviceInfo.
OpenUnlistedNode ==
    /\ infos.tag = "Some"
    /\ Len(infos.val) = 0
    /\ dev_info.tag = "todo"
    /\ \E os \in OpenResults :
          dev_info' = [tag |-> "done", entry |-> 0,
                       ret |-> IF IsOk(HidDevice_open_path(os))
                               THEN HidDevice_get_device_info(desc, node)
                               ELSE HidDevice_open_path(os)]
    /\ UNCHANGED <<desc, node, iter, yielded, infos, parseVars, devVars, restVars>>

NextScan == UsagesNext \/ DeviceToHidDeviceInfo \/ GetDeviceInfo \/ OpenUnlistedNode

SpecScan == InitScan /\ [][NextScan]_vars

(***************************************************************************)
(*                 One opened HidDevice  (Spec)                            *)
(*                                                                         *)
(* Every API call is one action.  A call that blocks in the kernel takes   *)
(* in what the kernel does while it waits: the scenario sets below list    *)
(* what the wait can end with.  `last` records what the call was given,    *)
(* which system calls it issued, and what it returned.                     *)
(***************************************************************************)
\* caps.InputReportByteLength, OutputReportByteLength, FeatureReportByteLength
InputReportByteLength == 3
OutputReportByteLength == 2
FeatureReportByteLength == 1
\* Longest data slice and read buffer a caller passes.
MaxDataLen == OutputReportByteLength + 1
MaxBufLen == InputReportByteLength
\* Input reports the device sends in a behaviour.
MaxReports == 2
\* Write operations in flight on the write OVERLAPPED in a behaviour.
MaxOutstanding == 2

Unit == <<>>
Zeros(n) == [i \in 1..n |-> 0]
Datas == { [i \in 1..n |-> i] : n \in 0..MaxDataLen }
BufLens == 0..MaxBufLen
Timeouts == {-1, 0, 5}
ReportIds == {0, 1}

\* An input report as the kernel hands it over: the report id byte (0 when
\* the device does not number its reports), then the payload, which here
\* starts with the report's sequence number.
Report(id, seq) == <<id, seq>> \o Zeros(InputReportByteLength - 2)
SeqOf(report) == report[2]

Slots == {"read", "write", "feature"}
SlotOrder == <<"read", "write", "feature">>

\* AsyncState::new, with the kernel's view of the OVERLAPPED: ops is the
\* number of operations in flight that were issued with it, internal the
\* status the last issue or completion left in OVERLAPPED.Internal, high the
\* byte count in InternalHigh, cancelling whether CancelIoEx marked the
\* operations in flight, released whether the event handle and the buffer
\* were freed.
AsyncState_new(report_size) ==
    [buffer |-> Zeros(report_size), ops |-> 0, internal |-> "none", high |-> 0,
     cancelling |-> FALSE, released |-> FALSE]

clear_buffer(buffer) == Zeros(Len(buffer))

fill_buffer(buffer, data) ==
    LET data_size == Min(Len(data), Len(buffer))
    IN  [i \in 1..Len(buffer) |-> IF i <= data_size THEN data[i] ELSE 0]

\* Mutant: the empty-data test never fires.
is_empty_never(s) == FALSE

is_empty(s) == Len(s) = 0

\* Mutant: every code but ERROR_IO_PENDING is a Generic one.
Win32Error_last_generic(code) ==
    IF code = "ERROR_IO_PENDING" THEN [k |-> "IoPending", code |-> "-"]
    ELSE [k |-> "Generic", code |-> code]

\* Mutant: the report id byte is never skipped.
copy_report_keeps_id(buffer, bytes_read, buflen) ==
    SubSeq(buffer, 1, Min(bytes_read, buflen))

\* Win32Error::last applied to the value of GetLastError().
Win32Error_last(code) ==
    CASE code = "NO_ERROR" -> [k |-> "Success", code |-> "-"]
      [] code = "ERROR_IO_PENDING" -> [k |-> "IoPending", code |-> "-"]
      [] code \in {"ERROR_IO_INCOMPLETE", "WAIT_TIMEOUT"} -> [k |-> "WaitTimedOut", code |-> "-"]
      [] OTHER -> [k |-> "Generic", code |-> code]

\* impl From<Win32Error> for WinError
WinError_from(value) ==
    IF value.k = "WaitTimedOut"
    THEN [w |-> "WaitTimedOut", e |-> value]
    ELSE [w |-> "Win32", e |-> value]

WinError_last(code) == WinError_from(Win32Error_last(code))

\* Mutant: every WinError becomes an IoError.
HidError_from_all_io(value) == [kind |-> "IoError", code |-> value.e.code]

\* impl From<WinError> for HidError
HidError_from(value) ==
    IF value.w = "Win32" /\ value.e.k = "Generic"
    THEN [kind |-> "IoError", code |-> value.e.code]
    ELSE [kind |-> "HidApiError", message |-> value]

InvalidZeroSizeData == [kind |-> "InvalidZeroSizeData"]

\* INFINITE stands for the wait that has no end.
INFINITE == -1
\* u32::try_from(timeout).ok(), then timeout.unwrap_or(INFINITE)
wait_ms(timeout) == IF timeout < 0 THEN INFINITE ELSE timeout

\* The last-error code a completed operation's status gives.
LastErrorOfStatus(st) ==
    IF st = "aborted" THEN "ERROR_OPERATION_ABORTED" ELSE "ERROR_DEVICE_NOT_CONNECTED"

\* GetOverlappedResultEx at the end of its wait, st the status in
\* OVERLAPPED.Internal then: what it returns and the last-error code.
GetOverlappedResultEx(st, ms) ==
    IF st = "success" THEN [cr |-> TRUE, err |-> "NO_ERROR"]
    ELSE IF st = "pending"
    THEN [cr |-> FALSE, err |-> IF ms = 0 THEN "ERROR_IO_INCOMPLETE" ELSE "WAIT_TIMEOUT"]
    ELSE [cr |-> FALSE, err |-> LastErrorOfStatus(st)]

\* Overlapped::get_result
get_result(st, high, ms) ==
    LET r == GetOverlappedResultEx(st, ms)
    IN  IF r.cr THEN Ok(high) ELSE Err(WinError_last(r.err))

\* A system call in `last.calls`.
Sys(fn, arg) == [fn |-> fn, arg |-> arg]

NoCall ==
    [op |-> "none", data |-> <<>>, buflen |-> 0, timeout |-> 0, ret |-> Ok(0),
     calls |-> <<>>, out |-> <<>>, pendingBefore |-> FALSE, res |-> "-",
     wait |-> "-", revents |-> {}, mode |-> TRUE]

\* The record of a call of op: mode is the blocking flag the call ends with.
Call(op) == [NoCall EXCEPT !.op = op, !.mode = blocking]

Init ==
    /\ backend \in {"linux", "windows"}
    /\ pc = "open"
    /\ dropSlot = 0
    /\ blocking = TRUE
    /\ read_pending = FALSE
    /\ slot = IF backend = "windows"
              THEN [s \in Slots |->
                      AsyncState_new(CASE s = "read" -> InputReportByteLength
                                       [] s = "write" -> OutputReportByteLength
                                       [] s = "feature" -> FeatureReportByteLength)]
              ELSE <<>>
    /\ devQueue = <<>>
    /\ connected = TRUE
    /\ sent = 0
    /\ last = NoCall
    /\ delivered = <<>>
    /\ ParseIdle
    /\ ScanIdle
    /\ RestIdle

Idle == UNCHANGED <<parseVars, scanVars, restVars>>

(***************************************************************************)
(* The device and the kernel.                                              *)
(***************************************************************************)
\* The read ReadFile left in flight, not yet completed nor cancelled.
ReadInFlight ==
    /\ backend = "windows"
    /\ slot["read"].ops > 0
    /\ slot["read"].internal = "pending"
    /\ ~slot["read"].cancelling

\* The device sends an input report: it completes the ReadFile in flight, or
\* the kernel queues it for the handle.
DeviceSendsReport(id) ==
    /\ pc = "open"
    /\ connected
    /\ sent < MaxReports
    /\ sent' = sent + 1
    /\ IF ReadInFlight
       THEN /\ slot' = [slot EXCEPT !["read"] =
                          [@ EXCEPT !.buffer = Report(id, sent + 1), !.ops = 0,
                                    !.internal = "success",
                                    !.high = InputReportByteLength]]
            /\ UNCHANGED devQueue
       ELSE /\ devQueue' = Append(devQueue, Report(id, sent + 1))
            /\ UNCHANGED slot
    /\ UNCHANGED <<backend, pc, dropSlot, blocking, read_pending, connected, last,
                   delivered>>
    /\ Idle

DeviceDisconnects ==
    /\ pc = "open"
    /\ connected
    /\ connected' = FALSE
    /\ UNCHANGED <<backend, pc, dropSlot, blocking, read_pending, slot, devQueue,
                   sent, last, delivered>>
    /\ Idle

\* The statuses the kernel can complete an operation in flight with.
CompletionStatuses(s) ==
    IF slot[s].cancelling
    THEN IF s = "write" THEN {"aborted", "success"} ELSE {"aborted"}
    ELSE IF ~connected THEN {"error"}
    ELSE IF s = "write" THEN {"success"} ELSE {}

\* The kernel completes one operation in flight on a slot's OVERLAPPED.
OsCompletes(s) ==
    /\ backend = "windows"
    /\ slot[s].ops > 0
    /\ \E st \in CompletionStatuses(s) :
          slot' = [slot EXCEPT ![s] =
                     [@ EXCEPT !.ops = @ - 1, !.internal = st,
                               !.high = IF st = "success" THEN Len(slot[s].buffer) ELSE 0,
                               !.cancelling = slot[s].cancelling /\ slot[s].ops > 1]]
    /\ UNCHANGED <<backend, pc, dropSlot, blocking, read_pending, devQueue,
                   connected, sent, last, delivered>>
    /\ Idle

(***************************************************************************)
(* set_blocking_mode and the timeout read() passes (both backends).        *)
(***************************************************************************)
\* Mutant: read() waits forever in either mode.
read_mode_timeout_always_blocking(b) == -1

\* read: if self.blocking.get() { -1 } else { 0 }
read_mode_timeout(b) == IF b THEN -1 ELSE 0

set_blocking_mode(b) ==
    /\ pc = "open"
    /\ blocking' = b
    /\ last' = [Call("set_blocking_mode") EXCEPT !.mode = b, !.ret = Ok(Unit)]
    /\ UNCHANGED <<backend, pc, dropSlot, read_pending, slot, devQueue, connected,
                   sent, delivered>>
    /\ Idle

(***************************************************************************)
(* The Windows backend (src/windows_native/mod.rs).                        *)
(***************************************************************************)
\* The wait WriteFile's pending completion gets in write.
WriteWaitMs == 1000

\* What GetLastError() can hold after WriteFile returned FALSE, the pending
\* code apart.
WriteFileErrorCodes ==
    IF connected THEN {"WAIT_TIMEOUT", "ERROR_ACCESS_DENIED"}
    ELSE {"ERROR_DEVICE_NOT_CONNECTED"}

\* What WriteFile returns (TRUE, or FALSE and the last-error code res) and
\* what the operation it left in flight does within the wait.
WriteScenarios ==
    (IF connected THEN {[res |-> "TRUE", x |-> "-"]} ELSE {})
    \cup { [res |-> c, x |-> "-"] : c \in WriteFileErrorCodes }
    \cup (IF slot["write"].ops < MaxOutstanding
          THEN { [res |-> "ERROR_IO_PENDING", x |-> w] :
                   w \in {"timeout"} \cup (IF connected THEN {"complete"} ELSE {"fail"}) }
          ELSE {})

Windows_write(data) ==
    /\ backend = "windows"
    /\ pc = "open"
    /\ IF is_empty(data)
       THEN /\ last' = [Call("write") EXCEPT !.data = data,
                                      !.ret = Err(InvalidZeroSizeData)]
            /\ UNCHANGED slot
       ELSE \E sc \in WriteScenarios :
              LET state == slot["write"]
                  buffer == fill_buffer(state.buffer, data)
                  err == Win32Error_last(sc.res)
                  stEnd == CASE sc.x = "timeout" -> "pending"
                             [] sc.x = "complete" -> "success"
                             [] OTHER -> "error"
                  waited == get_result(stEnd, Len(buffer), WriteWaitMs)
                  ret == IF sc.res = "TRUE" THEN Ok(0)
                         ELSE IF err.k # "IoPending"
                         THEN Err(HidError_from(WinError_from(err)))
                         ELSE IF IsOk(waited) THEN Ok(waited.val)
                         ELSE Err(HidError_from(waited.err))
                  pending == sc.res = "ERROR_IO_PENDING"
              IN  /\ slot' = [slot EXCEPT !["write"] =
                       [@ EXCEPT
                          !.buffer = buffer,
                          !.ops = IF pending /\ sc.x = "timeout" THEN @ + 1 ELSE @,
                          !.internal = IF sc.res = "TRUE" THEN "success"
                                       ELSE IF pending THEN stEnd ELSE @,
                          !.high = IF sc.res = "TRUE" \/ (pending /\ stEnd = "success")
                                   THEN Len(buffer) ELSE @]]
                  /\ last' = [Call("write") EXCEPT
                       !.data = data, !.ret = ret, !.res = sc.res,
                       !.wait = IF pending
                                THEN GetOverlappedResultEx(stEnd, WriteWaitMs).err
                                ELSE "-",
                       !.calls = <<Sys("WriteFile", buffer)>> \o
                                 (IF pending
                                  THEN <<Sys("GetOverlappedResultEx", <<WriteWaitMs>>)>>
                                  ELSE <<>>)]
    /\ UNCHANGED <<backend, pc, dropSlot, blocking, read_pending, devQueue,
                   connected, sent, delivered>>
    /\ Idle

\* What HidD_SetFeature returns: TRUE, or FALSE and the last-error code.
SetFeatureResults ==
    IF connected THEN {"TRUE", "ERROR_INVALID_FUNCTION"} ELSE {"ERROR_DEVICE_NOT_CONNECTED"}

Windows_send_feature_report(data) ==
    /\ backend = "windows"
    /\ pc = "open"
    /\ IF is_empty(data)
       THEN /\ last' = [Call("send_feature_report") EXCEPT !.data = data,
                                      !.ret = Err(InvalidZeroSizeData)]
            /\ UNCHANGED slot
       ELSE \E res \in SetFeatureResults :
              LET buffer == fill_buffer(slot["feature"].buffer, data)
              IN  /\ slot' = [slot EXCEPT !["feature"].buffer = buffer]
                  /\ last' = [Call("send_feature_report") EXCEPT
                       !.data = data, !.res = res,
                       !.ret = IF res = "TRUE" THEN Ok(Unit)
                               ELSE Err(HidError_from(WinError_last(res))),
                       !.calls = <<Sys("HidD_SetFeature", buffer)>>]
    /\ UNCHANGED <<backend, pc, dropSlot, blocking, read_pending, devQueue,
                   connected, sent, delivered>>
    /\ Idle

\* What the wait on the read in flight can end with: the timeout, or an
\* input report the device sends meanwhile.
ReadWaits(timeout) ==
    (IF timeout >= 0 THEN {[x |-> "timeout", id |-> 0]} ELSE {})
    \cup (IF timeout # 0 /\ connected /\ sent < MaxReports
          THEN { [x |-> "report", id |-> i] : i \in ReportIds }
          ELSE {})

\* What GetLastError() can hold after ReadFile returned FALSE, the pending
\* code apart.
ReadFileErrorCodes ==
    IF connected THEN {"WAIT_TIMEOUT", "ERROR_ACCESS_DENIED"}
    ELSE {"ERROR_DEVICE_NOT_CONNECTED"}

\* What ReadFile returns (res: "-" when none is issued) and how the wait ends.
ReadScenarios(timeout) ==
    IF read_pending
    THEN IF slot["read"].internal # "pending"
         THEN {[res |-> "-", x |-> "ready", id |-> 0]}
         ELSE { [res |-> "-", x |-> w.x, id |-> w.id] : w \in ReadWaits(timeout) }
    ELSE { [res |-> c, x |-> "-", id |-> 0] : c \in ReadFileErrorCodes }
         \cup (IF ~connected THEN {}
               ELSE IF devQueue # <<>>
               THEN {[res |-> "TRUE", x |-> "-", id |-> 0],
                     [res |-> "ERROR_IO_PENDING", x |-> "ready", id |-> 0]}
               ELSE { [res |-> "ERROR_IO_PENDING", x |-> w.x, id |-> w.id] :
                        w \in ReadWaits(timeout) })

\* read_timeout, the copy into the caller's buffer: a leading 0x00 report
\* id is skipped.
copy_report(buffer, bytes_read, buflen) ==
    IF bytes_read > 0
    THEN IF buffer[1] = 0
         THEN SubSeq(buffer, 2, 1 + Min(bytes_read - 1, buflen))
         ELSE SubSeq(buffer, 1, Min(bytes_read, buflen))
    ELSE <<>>

\* Mutant: a wait that timed out clears the pending flag.
read_pending_after_cleared(res) == FALSE

\* read_timeout, the pending flag after the wait: Ok and any error but
\* WaitTimedOut clear it, WaitTimedOut returns with it set.
read_pending_after(res) == ~IsOk(res) /\ res.err.w = "WaitTimedOut"

Windows_read_timeout_call(op, buflen, timeout) ==
    /\ backend = "windows"
    /\ pc = "open"
    /\ IF buflen = 0
       THEN /\ last' = [Call(op) EXCEPT !.buflen = buflen, !.timeout = timeout,
                                      !.pendingBefore = read_pending,
                                      !.ret = Err(InvalidZeroSizeData)]
            /\ UNCHANGED <<read_pending, slot, devQueue, sent, delivered>>
       ELSE \E sc \in ReadScenarios(timeout) :
              LET state == slot["read"]
                  issue == ~read_pending
                  cleared == IF issue THEN clear_buffer(state.buffer) ELSE state.buffer
                  fromQueue == issue /\ (sc.res = "TRUE" \/ sc.x = "ready")
                  err == Win32Error_last(sc.res)
                  failed == issue /\ sc.res # "TRUE" /\ err.k # "IoPending"
                  io_runnig == ~issue \/ (sc.res # "TRUE" /\ ~failed)
                  stEnd == CASE sc.x = "timeout" -> "pending"
                             [] sc.x = "report" -> "success"
                             [] OTHER -> IF issue THEN "success" ELSE state.internal
                  buffer == IF fromQueue THEN Head(devQueue)
                            ELSE IF sc.x = "report" THEN Report(sc.id, sent + 1)
                            ELSE cleared
                  high == IF stEnd = "success" THEN Len(buffer) ELSE state.high
                  res == get_result(stEnd, high, wait_ms(timeout))
                  waitFailed == io_runnig /\ ~IsOk(res)
                  got == ~failed /\ ~waitFailed
                  bytes_read == IF io_runnig THEN res.val ELSE Len(buffer)
                  out == copy_report(buffer, bytes_read, buflen)
                  calls == (IF issue THEN <<Sys("ResetEvent", <<>>), Sys("ReadFile", <<>>)>>
                            ELSE <<>>)
                           \o (IF failed THEN <<Sys("CancelIoEx", <<>>)>> ELSE <<>>)
                           \o (IF io_runnig
                               THEN <<Sys("GetOverlappedResultEx", <<wait_ms(timeout)>>)>>
                               ELSE <<>>)
              IN  /\ read_pending' = IF failed THEN FALSE
                                     ELSE IF io_runnig THEN read_pending_after(res)
                                     ELSE FALSE
                  /\ slot' = [slot EXCEPT !["read"] =
                       IF failed THEN [@ EXCEPT !.buffer = cleared]
                       ELSE [@ EXCEPT
                               !.buffer = buffer,
                               !.ops = IF stEnd = "pending" THEN 1 ELSE 0,
                               !.internal = stEnd,
                               !.high = high]]
                  /\ devQueue' = IF fromQueue THEN Tail(devQueue) ELSE devQueue
                  /\ sent' = IF sc.x = "report" THEN sent + 1 ELSE sent
                  /\ delivered' = IF got THEN Append(delivered, SeqOf(buffer))
                                  ELSE delivered
                  /\ last' = [Call(op) EXCEPT
                       !.buflen = buflen, !.timeout = timeout,
                       !.pendingBefore = read_pending, !.res = sc.res,
                       !.wait = IF io_runnig
                                THEN GetOverlappedResultEx(stEnd, wait_ms(timeout)).err
                                ELSE "-",
                       !.calls = calls,
                       !.out = IF got THEN out ELSE <<>>,
                       !.ret = IF failed THEN Err(HidError_from(WinError_from(err)))
                               ELSE IF waitFailed
                               THEN IF res.err.w = "WaitTimedOut" THEN Ok(0)
                                    ELSE Err(HidError_from(res.err))
                               ELSE Ok(Len(out))]
    /\ UNCHANGED <<backend, pc, dropSlot, blocking, connected>>
    /\ Idle

Windows_read_timeout(buflen, timeout) ==
    Windows_read_timeout_call("read_timeout", buflen, timeout)

Windows_read(buflen) ==
    Windows_read_timeout_call("read", buflen, read_mode_timeout(blocking))

\* impl Drop for HidDevice: the loop over the three slots begins.
Windows_drop ==
    /\ backend = "windows"
    /\ pc = "open"
    /\ pc' = "drop_cancel"
    /\ dropSlot' = 1
    /\ last' = Call("drop")
    /\ UNCHANGED <<backend, blocking, read_pending, slot, devQueue, connected, sent,
                   delivered>>
    /\ Idle

\* The loop moves to the next slot, or ends.
DropAdvance ==
    IF dropSlot < Len(SlotOrder)
    THEN pc' = "drop_cancel" /\ dropSlot' = dropSlot + 1
    ELSE pc' = "drop_fields" /\ dropSlot' = dropSlot

\* CancelIoEx(handle, overlapped): marks the operations in flight that were
\* issued with this OVERLAPPED and returns nonzero, or finds none and
\* returns 0.
Windows_drop_CancelIoEx ==
    /\ pc = "drop_cancel"
    /\ LET s == SlotOrder[dropSlot]
       IN  IF slot[s].ops > 0
           THEN /\ slot' = [slot EXCEPT ![s].cancelling = TRUE]
                /\ pc' = "drop_wait"
                /\ UNCHANGED dropSlot
           ELSE /\ DropAdvance
                /\ UNCHANGED slot
    /\ UNCHANGED <<backend, blocking, read_pending, devQueue, connected, sent, last,
                   delivered>>
    /\ Idle

\* get_result(None): GetOverlappedResultEx returns once OVERLAPPED.Internal
\* is no longer pending; the result is dropped.
Windows_drop_get_result ==
    /\ pc = "drop_wait"
    /\ slot[SlotOrder[dropSlot]].internal # "pending"
    /\ DropAdvance
    /\ UNCHANGED <<backend, blocking, read_pending, slot, devQueue, connected, sent,
                   last, delivered>>
    /\ Idle

\* The fields are dropped: the device handle is closed, then every
\* AsyncState closes its event handle and frees its OVERLAPPED and buffer.
Windows_drop_fields ==
    /\ pc = "drop_fields"
    /\ pc' = "dropped"
    /\ slot' = [s \in Slots |-> [slot[s] EXCEPT !.released = TRUE]]
    /\ UNCHANGED <<backend, dropSlot, blocking, read_pending, devQueue, connected,
                   sent, last, delivered>>
    /\ Idle

(***************************************************************************)
(* The Linux backend (src/linux_native.rs).                                *)
(***************************************************************************)
IoError(errno) == [kind |-> "IoError", code |-> errno]

Linux_write(data) ==
    /\ backend = "linux"
    /\ pc = "open"
    /\ last' = IF is_empty(data)
               THEN [Call("write") EXCEPT !.data = data,
                                   !.ret = Err(InvalidZeroSizeData)]
               ELSE LET res == IF connected THEN Ok(Len(data)) ELSE Err("ENODEV")
                    IN  [Call("write") EXCEPT
                           !.data = data,
                           !.calls = <<Sys("write", data)>>,
                           !.ret = IF IsOk(res) THEN res ELSE Err(IoError(res.err))]
    /\ UNCHANGED <<backend, pc, dropSlot, blocking, read_pending, slot, devQueue,
                   connected, sent, delivered>>
    /\ Idle

\* What the HIDIOCSFEATURE ioctl returns for data.
SetFeatureIoctlResults(data) ==
    IF connected THEN {Ok(Len(data)), Ok(Len(data) - 1), Err("EPIPE")} ELSE {Err("ENODEV")}

Linux_send_feature_report(data) ==
    /\ backend = "linux"
    /\ pc = "open"
    /\ IF is_empty(data)
       THEN last' = [Call("send_feature_report") EXCEPT !.data = data,
                                   !.ret = Err(InvalidZeroSizeData)]
       ELSE \E r \in SetFeatureIoctlResults(data) :
              last' = [Call("send_feature_report") EXCEPT
                  !.data = data,
                  !.calls = <<Sys("ioctl", data)>>,
                  !.ret = IF ~IsOk(r)
                          THEN Err([kind |-> "HidApiError", message |-> r.err])
                          ELSE IF r.val # Len(data)
                          THEN Err([kind |-> "IncompleteSendError", sent |-> r.val,
                                    all |-> Len(data)])
                          ELSE Ok(Unit)]
    /\ UNCHANGED <<backend, pc, dropSlot, blocking, read_pending, slot, devQueue,
                   connected, sent, delivered>>
    /\ Idle

\* The events hidraw's poll reports for the descriptor now.
KernelRevents ==
    (IF devQueue # <<>> THEN {"POLLIN"} ELSE {})
    \cup (IF ~connected THEN {"POLLERR", "POLLHUP"} ELSE {})

\* How poll ends: with events already there, or, waiting, with the timeout,
\* with a signal (EINTR), or with an input report the device sends meanwhile.
PollScenarios(timeout) ==
    IF KernelRevents # {} THEN {[x |-> "ready", id |-> 0]}
    ELSE (IF timeout >= 0 THEN {[x |-> "timeout", id |-> 0]} ELSE {})
         \cup (IF timeout # 0 THEN {[x |-> "EINTR", id |-> 0]} ELSE {})
         \cup (IF timeout # 0 /\ sent < MaxReports
               THEN { [x |-> "report", id |-> i] : i \in ReportIds }
               ELSE {})

PollErrorEvents == {"POLLERR", "POLLHUP", "POLLNVAL"}

DeviceDisconnected ==
    [kind |-> "HidApiError", message |-> "unexpected poll error (device disconnected)"]

Linux_read_timeout_call(op, buflen, timeout) ==
    /\ backend = "linux"
    /\ pc = "open"
    /\ \E sc \in PollScenarios(timeout) :
         LET \* let pollfd = PollFd::new(fd, POLLIN)
             pollfd == [events |-> {"POLLIN"}, revents |-> {}]
             \* poll(&mut [pollfd], timeout): PollFd is Copy, the array holds
             \* a copy of pollfd and the kernel writes revents into that copy
             queue == IF sc.x = "report" THEN Append(devQueue, Report(sc.id, sent + 1))
                      ELSE devQueue
             reported == IF sc.x = "report" THEN {"POLLIN"}
                         ELSE IF sc.x = "ready" THEN KernelRevents ELSE {}
             fds == <<[pollfd EXCEPT !.revents = reported]>>
             res == IF sc.x = "EINTR" THEN Err("EINTR")
                    ELSE Ok(Cardinality({i \in 1..Len(fds) : fds[i].revents # {}}))
             \* pollfd.revents().map(|e| e.intersects(POLLERR | POLLHUP | POLLNVAL))
             events == pollfd.revents \cap PollErrorEvents # {}
             reads == IsOk(res) /\ res.val # 0 /\ ~events
             rd == IF queue # <<>> THEN Ok(Min(Len(Head(queue)), buflen))
                   ELSE IF ~connected THEN Err("EIO") ELSE Err("EAGAIN")
             got == reads /\ queue # <<>>
         IN  /\ devQueue' = IF got THEN Tail(queue) ELSE queue
             /\ sent' = IF sc.x = "report" THEN sent + 1 ELSE sent
             /\ delivered' = IF got THEN Append(delivered, SeqOf(Head(queue)))
                             ELSE delivered
             /\ last' = [Call(op) EXCEPT
                  !.buflen = buflen, !.timeout = timeout,
                  !.revents = reported,
                  !.res = IF IsOk(res) THEN "Ok" ELSE res.err,
                  !.calls = <<Sys("poll", <<timeout>>)>>
                            \o (IF reads THEN <<Sys("read", <<buflen>>)>> ELSE <<>>),
                  !.out = IF got THEN SubSeq(Head(queue), 1, rd.val) ELSE <<>>,
                  !.wait = IF reads /\ ~IsOk(rd) THEN rd.err ELSE "-",
                  !.ret = IF ~IsOk(res) THEN Err(IoError(res.err))
                          ELSE IF res.val = 0 THEN Ok(0)
                          ELSE IF events THEN Err(DeviceDisconnected)
                          ELSE IF IsOk(rd) THEN Ok(rd.val)
                          ELSE IF rd.err \in {"EAGAIN", "EINPROGRESS"} THEN Ok(0)
                          ELSE Err(IoError(rd.err))]
    /\ UNCHANGED <<backend, pc, dropSlot, blocking, read_pending, slot, connected>>
    /\ Idle

Linux_read_timeout(buflen, timeout) ==
    Linux_read_timeout_call("read_timeout", buflen, timeout)

Linux_read(buflen) ==
    Linux_read_timeout_call("read", buflen, read_mode_timeout(blocking))

\* The OwnedFd closes the descriptor.
Linux_drop ==
    /\ backend = "linux"
    /\ pc = "open"
    /\ pc' = "dropped"
    /\ last' = Call("drop")
    /\ UNCHANGED <<backend, dropSlot, blocking, read_pending, slot, devQueue,
                   connected, sent, delivered>>
    /\ Idle

Next ==
    \/ \E id \in ReportIds : DeviceSendsReport(id)
    \/ DeviceDisconnects
    \/ \E s \in Slots : OsCompletes(s)
    \/ \E b \in BOOLEAN : set_blocking_mode(b)
    \/ \E data \in Datas : Windows_write(data)
    \/ \E data \in Datas : Windows_send_feature_report(data)
    \/ \E n \in BufLens, t \in Timeouts : Windows_read_timeout(n, t)
    \/ \E n \in BufLens : Windows_read(n)
    \/ Windows_drop
    \/ Windows_drop_CancelIoEx
    \/ Windows_drop_get_result
    \/ Windows_drop_fields
    \/ \E data \in Datas : Linux_write(data)
    \/ \E data \in Datas : Linux_send_feature_report(data)
    \/ \E n \in BufLens, t \in Timeouts : Linux_read_timeout(n, t)
    \/ \E n \in BufLens : Linux_read(n)
    \/ Linux_drop

Spec == Init /\ [][Next]_vars

(***************************************************************************)
(* C1 .. C7: the claims about one opened HidDevice, checked under Spec.    *)
(***************************************************************************)
Issued(l, fn) == \E i \in 1..Len(l.calls) : l.calls[i].fn = fn

IsRead(l) == l.op \in {"read", "read_timeout"}

\* The call's wait on the read overlapped ended with WaitTimedOut.
WaitTimedOut(l) == l.wait \in {"ERROR_IO_INCOMPLETE", "WAIT_TIMEOUT"}

\* The sequence numbers of the reports the handle still holds: the one a
\* completed ReadFile left in the read buffer, then the kernel's queue.
HeldReports ==
    (IF read_pending /\ slot["read"].internal = "success"
     THEN <<SeqOf(slot["read"].buffer)>> ELSE <<>>)
    \o [i \in 1..Len(devQueue) |-> SeqOf(devQueue[i])]

\* What a caller with a buffer of buflen bytes sees of a report.
SeenOf(report, buflen) ==
    IF report[1] = 0
    THEN SubSeq(report, 2, 1 + Min(Len(report) - 1, buflen))
    ELSE SubSeq(report, 1, Min(Len(report), buflen))

\* C1: on Windows, a read_timeout whose overlapped wait reports WaitTimedOut
\* returns Ok(0) and cancels nothing: until the next read call the read stays
\* marked pending and its ReadFile is in flight or has completed, never
\* aborted; a call made while a read is pending issues no ReadFile and waits
\* on the read overlapped; a call whose wait succeeds returns the report that
\* completed the read; no report is lost or returned twice.
C1_ReadStaysPending ==
    (backend = "windows" /\ pc = "open") =>
        /\ (IsRead(last) /\ WaitTimedOut(last)) =>
              /\ last.ret = Ok(0)
              /\ ~Issued(last, "CancelIoEx")
              /\ read_pending
              /\ ~slot["read"].cancelling
              /\ \/ slot["read"].ops = 1 /\ slot["read"].internal = "pending"
                 \/ slot["read"].ops = 0 /\ slot["read"].internal \in {"success", "error"}
        /\ (IsRead(last) /\ last.pendingBefore) =>
              /\ ~Issued(last, "ReadFile")
              /\ last.buflen > 0 => Issued(last, "GetOverlappedResultEx")
        /\ (IsRead(last) /\ last.wait = "NO_ERROR") =>
              /\ ~read_pending
              /\ delivered # <<>>
              /\ \E id \in ReportIds :
                    last.out = SeenOf(Report(id, delivered[Len(delivered)]), last.buflen)
              /\ last.ret = Ok(Len(last.out))
        /\ delivered \o HeldReports = [i \in 1..sent |-> i]

\* A read_timeout found the read pending, issued no ReadFile and returned the
\* report that had arrived since the call that timed out.
C1_Witness ==
    /\ backend = "windows"
    /\ last.op = "read_timeout"
    /\ last.pendingBefore
    /\ last.timeout = -1
    /\ ~Issued(last, "ReadFile")
    /\ last.ret.tag = "Ok"
    /\ last.out # <<>>
    /\ delivered # <<>>

\* C2 as stated, its safety part: no slot's event handle and buffer are
\* released while an operation issued with that slot's overlapped is still
\* in flight.  Refuted after a write whose wait timed out and a second write:
\* two operations are in flight on the write overlapped, and the wait in drop
\* ends when the first of them completes.
C2_AsStated ==
    backend = "windows" =>
        \A s \in Slots : slot[s].released => slot[s].ops = 0

\* C3: send_feature_report and write called with empty data return
\* InvalidZeroSizeData and issue no system call, on both backends.
C3_EmptyData ==
    (last.op \in {"write", "send_feature_report"} /\ last.data = <<>>) =>
        /\ last.ret = Err(InvalidZeroSizeData)
        /\ last.calls = <<>>

\* send_feature_report was called with an empty slice on Windows.
C3_Witness ==
    /\ backend = "windows"
    /\ last.op = "send_feature_report"
    /\ last.data = <<>>
    /\ last.ret = Err(InvalidZeroSizeData)

\* The call found no input report and the device attached.
NoDataAvailable(l) ==
    IF backend = "windows" THEN l.wait = "ERROR_IO_INCOMPLETE"
    ELSE l.res = "Ok" /\ l.revents = {}

\* C4: a handle starts in blocking mode; set_blocking_mode can always be
\* called, succeeds and sets the mode to its argument, and the mode is always
\* the one the last call ended with, so no other operation changes it; read()
\* passes read_timeout the timeout -1 in blocking mode and 0 in non-blocking
\* mode, where every wait it makes is given 0 and with no data available it
\* returns 0 bytes.
C4_BlockingMode ==
    /\ last.op = "none" => blocking
    /\ last.op = "set_blocking_mode" => last.ret = Ok(Unit)
    /\ pc = "open" => \A b \in BOOLEAN : ENABLED set_blocking_mode(b)
    /\ blocking = last.mode
    /\ last.op = "read" =>
          /\ last.timeout = IF blocking THEN -1 ELSE 0
          /\ \A i \in 1..Len(last.calls) :
                last.calls[i].fn \in {"poll", "GetOverlappedResultEx"} =>
                    last.calls[i].arg = <<last.timeout>>
          /\ (~blocking /\ NoDataAvailable(last)) => last.ret = Ok(0)

\* read() was called in non-blocking mode with no data and returned 0.
C4_Witness ==
    /\ last.op = "read"
    /\ ~blocking
    /\ last.timeout = 0
    /\ NoDataAvailable(last)
    /\ last.ret = Ok(0)

\* C5 as stated: on Linux, when poll succeeds, read_timeout returns 0 bytes
\* without read() if poll reported no event, fails with the
\* device-disconnected error without read() if poll reported POLLERR, POLLHUP
\* or POLLNVAL, and otherwise returns what one read() gives (0 bytes for
\* EAGAIN and EINPROGRESS, an error for another errno, else the byte count).
\* Refuted on a detached device: poll reports POLLERR and POLLHUP, and read()
\* is called.
C5_AsStated ==
    (backend = "linux" /\ IsRead(last) /\ last.res = "Ok") =>
        IF last.revents = {}
        THEN last.ret = Ok(0) /\ ~Issued(last, "read")
        ELSE IF last.revents \cap PollErrorEvents # {}
        THEN last.ret = Err(DeviceDisconnected) /\ ~Issued(last, "read")
        ELSE /\ Issued(last, "read")
             /\ last.ret = (IF last.wait \in {"EAGAIN", "EINPROGRESS"} THEN Ok(0)
                            ELSE IF last.wait # "-" THEN Err(IoError(last.wait))
                            ELSE Ok(Len(last.out)))

\* C6 as stated: on Windows write hands WriteFile the data padded with zero
\* bytes to the output-report length when it is shorter, and the caller's
\* data itself otherwise.  Refuted by data one byte longer than the
\* output-report length: WriteFile gets the first output-report-length bytes.
C6_AsStated ==
    (backend = "windows" /\ last.op = "write" /\ Issued(last, "WriteFile")) =>
        last.calls[1].arg =
            IF Len(last.data) < OutputReportByteLength
            THEN last.data \o Zeros(OutputReportByteLength - Len(last.data))
            ELSE last.data

\* The codes Win32Error::last classifies as Generic.
IsGenericCode(c) ==
    c \notin {"NO_ERROR", "ERROR_IO_PENDING", "ERROR_IO_INCOMPLETE", "WAIT_TIMEOUT"}

WindowsWriteIssued == backend = "windows" /\ last.op = "write" /\ Issued(last, "WriteFile")

Buf == ValueOf(desc)

\* Bytes the item at offset o (from 1) takes: key and data; a long-item key in
\* the buffer's last byte has no length byte and takes three at least.
ItemBytes(o) ==
    IF Buf[o] \div 16 = 15
    THEN IF o = ValueLen THEN 3 ELSE 3 + Buf[o + 1]
    ELSE IF Buf[o] % 4 = 3 THEN 5 ELSE 1 + (Buf[o] % 4)

RECURSIVE ItemStartsFrom(_)
ItemStartsFrom(o) ==
    IF o > ValueLen THEN {}
    ELSE IF o + ItemBytes(o) - 1 > ValueLen THEN {o}
    ELSE {o} \cup ItemStartsFrom(o + ItemBytes(o))

ItemStarts == ItemStartsFrom(1)

\* An item whose declared bytes end past the buffer.
Overruns(o) == o + ItemBytes(o) - 1 > ValueLen
HasOverrun == \E o \in ItemStarts : Overruns(o)

ItemCmd(o) == (Buf[o] \div 4) * 4

\* The low 16 bits of a short item's data.
ItemData16(o) ==
    LET n == ItemBytes(o) - 1
    IN  IF n = 0 THEN 0 ELSE IF n = 1 THEN Buf[o + 1]
        ELSE Buf[o + 1] + 256 * Buf[o + 2]

IsMainItem(o) == ItemCmd(o) \in {160, 128, 144, 176, 192}

\* The Usage items still pending at offset o: no main item lies between.
PendingUsages(o) ==
    { u \in ItemStarts : /\ u < o
                         /\ ItemCmd(u) = 8
                         /\ ~\E m \in ItemStarts : u < m /\ m < o /\ IsMainItem(m) }

SetMax(S) == CHOOSE x \in S : \A y \in S : y <= x

PendingUsageAt(o) == ItemData16(SetMax(PendingUsages(o)))

UsagePageAt(o) ==
    LET ps == { q \in ItemStarts : q < o /\ ItemCmd(q) = 4 }
    IN  IF ps = {} THEN 0 ELSE ItemData16(SetMax(ps))

Collections == { o \in ItemStarts : ItemCmd(o) = 160 }

\* The Collection items at which a local Usage is pending.
YieldingCollections == { o \in Collections : PendingUsages(o) # {} }

RECURSIVE PairsOf(_)
PairsOf(S) ==
    IF S = {} THEN <<>>
    ELSE LET o == CHOOSE x \in S : \A y \in S : x <= y
         IN  <<(<<UsagePageAt(o), PendingUsageAt(o)>>)>> \o PairsOf(S \ {o})

EndOfInput == ValueLen + 1

ExpectedPairs ==
    IF YieldingCollections # {} THEN PairsOf(YieldingCollections)
    ELSE IF PendingUsages(EndOfInput) # {}
    THEN << <<UsagePageAt(EndOfInput), PendingUsageAt(EndOfInput)>> >>
    ELSE <<>>

DeclaresUsage == \E o \in ItemStarts : ItemCmd(o) = 8

\* C9 as stated, its count of pairs: one pair per Collection item, and one more
\* at end of input if the descriptor declares a Usage and has no Collection.
\* Refuted by a Collection with no pending Usage (bytes A0: no pair) and by a
\* Usage that an Input item discards (bytes 08 80: no pair at end of input).
C9_AsStated ==
    iter.state = "done" =>
        Len(yielded) = Cardinality(Collections)
                       + (IF DeclaresUsage /\ Collections = {} THEN 1 ELSE 0)

\* C9 amended: an iteration that reaches the end of the buffer has yielded, in
\* source order, one pair (usage page in force, pending usage) for every
\* Collection item at which a local Usage is pending, none for a Collection
\* without one, and, only if no pair was yielded before, one pair at end of
\* input when a local Usage is still pending there (no Input, Output, Feature,
\* End Collection or Collection item follows it).  The iteration panics, and
\* only then, when an item's declared bytes end past the buffer.
C9_UsagePairs ==
    /\ iter.state = "done" => yielded = ExpectedPairs /\ ~HasOverrun
    /\ iter.state = "panicked" => HasOverrun

\* Two Collection-triggered pairs were yielded and the iteration ended.
C9_Witness == iter.state = "done" /\ Len(yielded) = 2 /\ Cardinality(Collections) = 2

\* C8 as stated: a node that enumerates, with a descriptor yielding k pairs,
\* gives k DeviceInfo records when k >= 1 and exactly one when k = 0.
\* Refuted by a readable descriptor that yields no pair: the vector is empty.
C8_AsStated ==
    (infos.tag = "Some" /\ iter.state = "done") =>
        Len(infos.val) = IF Len(yielded) >= 1 THEN Len(yielded) ELSE 1

(***************************************************************************)
(* Claims C17 and C18: the Windows read_timeout, its ReadFile and its copy. *)
(***************************************************************************)
\* The call issued a ReadFile.
ReadFileIssued == backend = "windows" /\ IsRead(last) /\ Issued(last, "ReadFile")

\* The ReadFile failed at once with a code other than ERROR_IO_PENDING.
ReadFileFailed == ReadFileIssued /\ last.res \notin {"TRUE", "ERROR_IO_PENDING"}

\* The read a ReadFile started is marked pending from the call that issued
\* it until a call has consumed its result: after a call that issued a
\* ReadFile which did not fail, the flag is set exactly when the wait timed
\* out; a set flag means a read is in flight or completed and not consumed;
\* a clear flag means no read is in flight.
PendingUntilConsumed ==
    (backend = "windows" /\ pc = "open") =>
        /\ (ReadFileIssued /\ ~ReadFileFailed) => (read_pending <=> WaitTimedOut(last))
        /\ read_pending => \/ slot["read"].ops = 1 /\ slot["read"].internal = "pending"
                           \/ slot["read"].ops = 0
                              /\ slot["read"].internal \in {"success", "error"}
        /\ ~read_pending => slot["read"].ops = 0

ReadCompleted ==
    /\ backend = "windows"
    /\ pc = "open"
    /\ IsRead(last)
    /\ last.ret.tag = "Ok"
    /\ (last.res = "TRUE" \/ last.wait = "NO_ERROR")

\* C18: a Windows read that completed with n > 0 bytes in the read buffer b
\* gives the caller, when b starts with 0x00, the min(n - 1, buf.len()) bytes
\* after that byte, and otherwise the min(n, buf.len()) bytes from offset 0,
\* and returns that count; the count never exceeds buf.len() and every byte
\* copied lies inside the read buffer.
C18_CopyReport ==
    (ReadCompleted /\ slot["read"].high > 0) =>
        LET b == slot["read"].buffer
            n == slot["read"].high
            count == last.ret.val
            from == IF b[1] = 0 THEN 1 ELSE 0
        IN  /\ count = Min(n - from, last.buflen)
            /\ Len(last.out) = count
            /\ \A i \in 1..count : last.out[i] = b[from + i]
            /\ count <= last.buflen
            /\ from + count <= Len(b)

\* A report that starts with 0x00 was read into a one-byte buffer: the
\* caller got the byte after the report id, not the last byte of the report.
C18_Witness ==
    /\ ReadCompleted
    /\ slot["read"].buffer[1] = 0
    /\ slot["read"].high = InputReportByteLength
    /\ last.buflen = 1
    /\ last.ret = Ok(1)
    /\ last.out = <<slot["read"].buffer[2]>>

(***************************************************************************)
(*        CONTEXT_STATE, HidApi::new and its siblings  (SpecContext)       *)
(***************************************************************************)
\* HidApi instances alive at a time, and the longest device list an
\* instance collects.
MaxInstances == 1
MaxListLen == 2

\* The devices that can be attached: device d enumerates as vendor d,
\* product 1.
DeviceIds == {1, 2}
DeviceInfoOf(d) == [vendor_id |-> d, product_id |-> 1]
\* The vid and pid filters a caller passes: 0 is "no filter".
VidFilters == {0} \cup DeviceIds
PidFilters == {0, 1}

RECURSIVE SeqOfSet(_)
\* The elements of a set of numbers, in increasing order.
SeqOfSet(S) ==
    IF S = {} THEN <<>>
    ELSE LET lo == CHOOSE x \in S : \A y \in S : x <= y
         IN  <<lo>> \o SeqOfSet(S \ {lo})

\* HidApiBackend::get_hid_device_info_vector: the attached devices the
\* filters let through.
get_hid_device_info_vector(attached, vid, pid) ==
    LET match == { d \in attached :
                     /\ (vid = 0 \/ DeviceInfoOf(d).vendor_id = vid)
                     /\ (pid = 0 \/ DeviceInfoOf(d).product_id = pid) }
        ids == SeqOfSet(match)
    IN  [i \in 1..Len(ids) |-> DeviceInfoOf(ids[i])]

\* static CONTEXT_STATE
CONTEXT_STATE_initial == [device_discovery |-> TRUE, init_state |-> "NotInit"]

\* Mutant: discovery is turned off whenever asked, never with a panic.
disable_device_discovery_always(state) ==
    [state |-> [state EXCEPT !.device_discovery = FALSE], panic |-> FALSE]

\* HidApi::disable_device_discovery on the locked state: the state it leaves
\* and whether it panics.
disable_device_discovery(state) ==
    IF state.init_state = "NotInit"
    THEN [state |-> [state EXCEPT !.device_discovery = FALSE], panic |-> FALSE]
    ELSE IF state.device_discovery
    THEN [state |-> state, panic |-> TRUE]
    ELSE [state |-> state, panic |-> FALSE]

\* HidApi::new on the locked state: hid_init_ok is what hid_init() reports
\* (builds without the C library have no such call), enum is what the
\* enumeration of add_devices(0, 0) returns.
HidApi_new(state, hid_init_ok, enum) ==
    IF state.init_state = "NotInit" /\ ~hid_init_ok
    THEN [state |-> state, ret |-> Err("InitializationError")]
    ELSE [state |-> [state EXCEPT !.init_state = "Init"],
          ret |-> IF IsOk(enum) THEN Ok([device_list |-> enum.val])
                  ELSE enum]

\* What the enumeration can return: the devices, or the backend's error.
Enumerations(attached, vid, pid) ==
    {Ok(get_hid_device_info_vector(attached, vid, pid)), Err("HidApiError")}

\* What hid_init() can report.
HidInitResults(build) == IF build = "hidapi" THEN {TRUE, FALSE} ELSE {TRUE}

CtxCall(op) ==
    [op |-> op, before |-> [device_discovery |-> ctx.device_discovery,
                            init_state |-> ctx.init_state],
     attached |-> ctx.attached, panic |-> FALSE, ret |-> None]

CtxOnly == UNCHANGED <<parseVars, scanVars, devVars, enc, rec, opn>>

InitContext ==
    /\ \E build \in {"hidapi", "native"} :
         ctx = [build |-> build,
                device_discovery |-> CONTEXT_STATE_initial.device_discovery,
                init_state |-> CONTEXT_STATE_initial.init_state,
                attached |-> {},
                apis |-> <<>>,
                last |-> [op |-> "none"]]
    /\ enc = IdleValue
    /\ rec = IdleValue
    /\ opn = IdleValue
    /\ ParseIdle
    /\ ScanIdle
    /\ DevIdle

\* A device is plugged in or pulled out.
Attach(d) ==
    /\ d \notin ctx.attached
    /\ ctx' = [ctx EXCEPT !.attached = @ \cup {d}]
    /\ CtxOnly

Detach(d) ==
    /\ d \in ctx.attached
    /\ ctx' = [ctx EXCEPT !.attached = @ \ {d}]
    /\ CtxOnly

\* The instances after a constructor returned ret.
ApisWith(ret) == IF IsOk(ret) THEN Append(ctx.apis, ret.val) ELSE ctx.apis

CallNew ==
    /\ Len(ctx.apis) < MaxInstances
    /\ \E ok \in HidInitResults(ctx.build), enum \in Enumerations(ctx.attached, 0, 0) :
         LET r == HidApi_new([device_discovery |-> ctx.device_discovery,
                              init_state |-> ctx.init_state], ok, enum)
         IN  ctx' = [ctx EXCEPT !.device_discovery = r.state.device_discovery,
                                !.init_state = r.state.init_state,
                                !.apis = ApisWith(r.ret),
                                !.last = [CtxCall("new") EXCEPT !.ret = r.ret]]
    /\ CtxOnly

CallDisableDeviceDiscovery ==
    /\ LET r == disable_device_discovery([device_discovery |-> ctx.device_discovery,
                                          init_state |-> ctx.init_state])
       IN  ctx' = [ctx EXCEPT !.device_discovery = r.state.device_discovery,
                              !.init_state = r.state.init_state,
                              !.last = [CtxCall("disable_device_discovery")
                                          EXCEPT !.panic = r.panic]]
    /\ CtxOnly

\* HidApi::new_without_enumerate: disable_device_discovery, then new unless
\* the former panicked.
CallNewWithoutEnumerate ==
    /\ Len(ctx.apis) < MaxInstances
    /\ \E ok \in HidInitResults(ctx.build), enum \in Enumerations(ctx.attached, 0, 0) :
         LET d == disable_device_discovery([device_discovery |-> ctx.device_discovery,
                                            init_state |-> ctx.init_state])
             r == IF d.panic THEN [state |-> d.state, ret |-> None]
                  ELSE HidApi_new(d.state, ok, enum)
         IN  ctx' = [ctx EXCEPT !.device_discovery = r.state.device_discovery,
                                !.init_state = r.state.init_state,
                                !.apis = ApisWith(r.ret),
                                !.last = [CtxCall("new_without_enumerate")
                                            EXCEPT !.panic = d.panic, !.ret = r.ret]]
    /\ CtxOnly

\* HidApi::reset_devices
CallResetDevices(i) ==
    /\ i \in 1..Len(ctx.apis)
    /\ ctx' = [ctx EXCEPT !.apis[i].device_list = <<>>,
                          !.last = [CtxCall("reset_devices") EXCEPT !.ret = Ok(<<>>)]]
    /\ CtxOnly

\* An instance is dropped.
DropInstance(i) ==
    /\ i \in 1..Len(ctx.apis)
    /\ ctx' = [ctx EXCEPT !.apis = SubSeq(@, 1, i - 1) \o SubSeq(@, i + 1, Len(@))]
    /\ CtxOnly

\* HidApi::add_devices
CallAddDevices(i, vid, pid) ==
    /\ i \in 1..Len(ctx.apis)
    /\ \E enum \in Enumerations(ctx.attached, vid, pid) :
         /\ IsOk(enum) => Len(ctx.apis[i].device_list) + Len(enum.val) <= MaxListLen
         /\ ctx' = [ctx EXCEPT
              !.apis[i].device_list = IF IsOk(enum) THEN @ \o enum.val ELSE @,
              !.last = [CtxCall("add_devices") EXCEPT
                          !.ret = IF IsOk(enum) THEN Ok(<<>>) ELSE enum]]
    /\ CtxOnly

\* HidApi::refresh_devices: reset_devices, then add_devices(0, 0).
CallRefreshDevices(i) ==
    /\ i \in 1..Len(ctx.apis)
    /\ \E enum \in Enumerations(ctx.attached, 0, 0) :
         ctx' = [ctx EXCEPT
              !.apis[i].device_list = IF IsOk(enum) THEN enum.val ELSE <<>>,
              !.last = [CtxCall("refresh_devices") EXCEPT
                          !.ret = IF IsOk(enum) THEN Ok(<<>>) ELSE enum]]
    /\ CtxOnly

NextContext ==
    \/ \E d \in DeviceIds : Attach(d)
    \/ \E d \in DeviceIds : Detach(d)
    \/ CallNew
    \/ CallDisableDeviceDiscovery
    \/ CallNewWithoutEnumerate
    \/ \E i \in 1..MaxInstances : CallResetDevices(i)
    \/ \E i \in 1..MaxInstances, vid \in VidFilters, pid \in PidFilters :
         CallAddDevices(i, vid, pid)
    \/ \E i \in 1..MaxInstances : CallRefreshDevices(i)
    \/ \E i \in 1..MaxInstances : DropInstance(i)

SpecContext == InitContext /\ [][NextContext]_vars

\* The call made last was made with the context initialized.
CalledWhenInit == ctx.last.op # "none" /\ ctx.last.before.init_state = "Init"

\* C13: disable_device_discovery panics exactly when a context was already
\* initialized and discovery is enabled; called before initialization it
\* turns discovery off without initializing; once the context is
\* initialized no call changes device_discovery or takes init_state back to
\* NotInit.
C13_DisableDeviceDiscovery ==
    /\ ctx.last.op = "disable_device_discovery" =>
          /\ ctx.last.panic <=> (ctx.last.before.init_state = "Init"
                                 /\ ctx.last.before.device_discovery)
          /\ ctx.last.before.init_state = "NotInit" =>
                (~ctx.device_discovery /\ ctx.init_state = "NotInit")
    /\ ctx.last.op = "new_without_enumerate" =>
          (ctx.last.panic <=> (ctx.last.before.init_state = "Init"
                               /\ ctx.last.before.device_discovery))
    /\ CalledWhenInit =>
          /\ ctx.init_state = "Init"
          /\ ctx.device_discovery = ctx.last.before.device_discovery

\* disable_device_discovery panicked: a context had been initialized with
\* discovery enabled, and both fields are as they were.
C13_Witness ==
    /\ ctx.last.op = "disable_device_discovery"
    /\ ctx.last.panic
    /\ ctx.last.before = [device_discovery |-> TRUE, init_state |-> "Init"]
    /\ ctx.init_state = "Init"
    /\ ctx.device_discovery

\* C14 as stated: HidApi::new fills the device list from the enumeration
\* only if discovery has not been disabled; an instance created after
\* disable_device_discovery starts with an empty list.  Refuted: new calls
\* add_devices(0, 0) whatever device_discovery is.
C14_AsStated ==
    (ctx.last.op \in {"new", "new_without_enumerate"} /\ IsOk(ctx.last.ret)) =>
        IF ctx.device_discovery
        THEN ctx.last.ret.val.device_list
                = get_hid_device_info_vector(ctx.last.attached, 0, 0)
        ELSE ctx.last.ret.val.device_list = <<>>

(***************************************************************************)
(*                 DescriptorWriter::write  (SpecWriter)                   *)
(***************************************************************************)
\* An i64 is kept as its sign and the little-endian bytes of its magnitude
\* (no high zero byte), so that values past 32 bits can be written.
\* Items the writer is asked to write in a behaviour.
MaxWrites == 1

\* enum Items: the key byte of each item without its size code.
Items ==
    [MainInput |-> 128, MainOutput |-> 144, MainFeature |-> 176,
     MainCollection |-> 160, MainCollectionEnd |-> 192,
     GlobalUsagePage |-> 4, GlobalLogicalMinimum |-> 20,
     GlobalLogicalMaximum |-> 36, GlobalPhysicalMinimum |-> 52,
     GlobalPhysicalMaximum |-> 68, GlobalUnitExponent |-> 84,
     GlobalUnit |-> 100, GlobalReportSize |-> 116, GlobalReportId |-> 132,
     GlobalReportCount |-> 148, GlobalPush |-> 164, GlobalPop |-> 180,
     LocalUsage |-> 8, LocalUsageMinimum |-> 24, LocalUsageMaximum |-> 40,
     LocalDesignatorIndex |-> 56, LocalDesignatorMinimum |-> 72,
     LocalDesignatorMaximum |-> 88, LocalString |-> 120,
     LocalStringMinimum |-> 136, LocalStringMaximum |-> 152,
     LocalDelimiter |-> 168]
ItemNames == DOMAIN Items

I64(neg, mag) == [neg |-> neg, mag |-> mag]

\* The magnitudes drawn: the limits of the 1, 2 and 4 byte widths, signed
\* and unsigned, and their neighbours.
Magnitudes ==
    {<<>>, <<1>>, <<127>>, <<128>>, <<129>>, <<255>>, <<0, 1>>,
     <<255, 127>>, <<0, 128>>, <<1, 128>>, <<255, 255>>, <<0, 0, 1>>,
     <<255, 255, 255, 127>>, <<0, 0, 0, 128>>, <<1, 0, 0, 128>>,
     <<255, 255, 255, 255>>, <<0, 0, 0, 0, 1>>,
     <<255, 255, 255, 255, 255, 255, 255, 127>>}
I64Values ==
    { I64(FALSE, g) : g \in Magnitudes }
    \cup { I64(TRUE, g) : g \in Magnitudes \ {<<>>} }
    \cup {I64(TRUE, <<0, 0, 0, 0, 0, 0, 0, 128>>)}

\* a <= b on magnitudes.
MagLeq(a, b) ==
    IF Len(a) # Len(b) THEN Len(a) < Len(b)
    ELSE \/ a = b
         \/ \E i \in 1..Len(a) :
              /\ a[i] < b[i]
              /\ \A j \in (i + 1)..Len(a) : a[j] = b[j]

\* The magnitude in w bytes, and the two's complement of w bytes.
Pad(mag, w) == [i \in 1..w |-> IF i <= Len(mag) THEN mag[i] ELSE 0]
RECURSIVE AddOne(_)
AddOne(bytes) ==
    IF bytes = <<>> THEN <<>>
    ELSE IF Head(bytes) = 255 THEN <<0>> \o AddOne(Tail(bytes))
    ELSE <<Head(bytes) + 1>> \o Tail(bytes)
TwosComplement(bytes) == AddOne([i \in 1..Len(bytes) |-> 255 - bytes[i]])

\* iN::MAX, the magnitude of iN::MIN, and uN::MAX, for N = 8 * w.
SignedMax(w) == [i \in 1..w |-> IF i = w THEN 127 ELSE 255]
SignedMinMag(w) == [i \in 1..w |-> IF i = w THEN 128 ELSE 0]
UnsignedMax(w) == [i \in 1..w |-> 255]

\* i8/i16/i32::try_from(data).is_ok() and u8/u16/u32::try_from(data).is_ok()
signed_try_from(data, w) ==
    IF data.neg THEN MagLeq(data.mag, SignedMinMag(w))
    ELSE MagLeq(data.mag, SignedMax(w))
unsigned_try_from(data, w) == ~data.neg /\ MagLeq(data.mag, UnsignedMax(w))

\* to_le_bytes of a value that fits the width.
to_le_bytes(data, w) ==
    IF data.neg THEN TwosComplement(Pad(data.mag, w)) ELSE Pad(data.mag, w)

\* Mutant: no item is written with the signed conversions.
is_signed_item_never(item) == FALSE

\* The first arm with data of the match in write.
is_signed_item(item) ==
    item \in {"GlobalLogicalMinimum", "GlobalLogicalMaximum",
              "GlobalPhysicalMinimum", "GlobalPhysicalMaximum"}

\* DescriptorWriter::write: the bytes pushed, or the error.
DescriptorWriter_write(item, data) ==
    IF item = "MainCollectionEnd" THEN Ok(<<Items[item]>>)
    ELSE IF is_signed_item(item)
    THEN IF signed_try_from(data, 1) THEN Ok(<<Items[item] + 1>> \o to_le_bytes(data, 1))
         ELSE IF signed_try_from(data, 2) THEN Ok(<<Items[item] + 2>> \o to_le_bytes(data, 2))
         ELSE IF signed_try_from(data, 4) THEN Ok(<<Items[item] + 3>> \o to_le_bytes(data, 4))
         ELSE Err("InvalidPreparsedData")
    ELSE IF unsigned_try_from(data, 1) THEN Ok(<<Items[item] + 1>> \o to_le_bytes(data, 1))
         ELSE IF unsigned_try_from(data, 2) THEN Ok(<<Items[item] + 2>> \o to_le_bytes(data, 2))
         ELSE IF unsigned_try_from(data, 4) THEN Ok(<<Items[item] + 3>> \o to_le_bytes(data, 4))
         ELSE Err("InvalidPreparsedData")

WriterOnly == UNCHANGED <<parseVars, scanVars, devVars, ctx, rec, opn>>

\* DescriptorWriter::default()
InitWriter ==
    /\ enc = [buf |-> <<>>, writes |-> 0, before |-> <<>>, item |-> "none",
              data |-> I64(FALSE, <<>>), ret |-> None]
    /\ ctx = IdleValue
    /\ rec = IdleValue
    /\ opn = IdleValue
    /\ ParseIdle
    /\ ScanIdle
    /\ DevIdle

WriterWrite(item, data) ==
    /\ enc.writes < MaxWrites
    /\ LET r == DescriptorWriter_write(item, data)
       IN  enc' = [buf |-> IF IsOk(r) THEN enc.buf \o r.val ELSE enc.buf,
                   writes |-> enc.writes + 1,
                   before |-> enc.buf,
                   item |-> item, data |-> data,
                   ret |-> IF IsOk(r) THEN Ok(Unit) ELSE r]
    /\ WriterOnly

NextWriter == \E item \in ItemNames, data \in I64Values : WriterWrite(item, data)

SpecWriter == InitWriter /\ [][NextWriter]_vars

(***************************************************************************)
(* Claim C11: the width of the data a short item is written with.          *)
(***************************************************************************)
\* The low w bytes of the two's complement form of an i64.
LowBytes(v, w) ==
    SubSeq(IF v.neg THEN TwosComplement(Pad(v.mag, 8)) ELSE Pad(v.mag, 8), 1, w)

RECURSIVE StripHighZeros(_)
StripHighZeros(bytes) ==
    IF bytes # <<>> /\ bytes[Len(bytes)] = 0
    THEN StripHighZeros(SubSeq(bytes, 1, Len(bytes) - 1))
    ELSE bytes

\* The value that data bytes stand for, read as signed or as unsigned.
Decode(bytes, signed) ==
    IF signed /\ bytes[Len(bytes)] >= 128
    THEN I64(TRUE, StripHighZeros(TwosComplement(bytes)))
    ELSE I64(FALSE, StripHighZeros(bytes))

\* w bytes hold the value without loss.
Holds(v, w, signed) == Decode(LowBytes(v, w), signed) = v

\* The item whose write is recorded is one of the four signed ones.
SignedRange(item) ==
    \E s \in {"Logical", "Physical"}, e \in {"Minimum", "Maximum"} :
        Items[item] = Items["Global" \o s \o e]

\* The bytes the last write appended.
Written == SubSeq(enc.buf, Len(enc.before) + 1, Len(enc.buf))

\* C11: a short item written with data has the smallest number w of data
\* bytes among 1, 2 and 4 that holds the value without loss (read as signed
\* for Logical/Physical Minimum/Maximum, as unsigned for every other item),
\* and the size code in its key byte is the one of w; a value that 4 bytes
\* do not hold makes the write fail with InvalidPreparsedData and append
\* nothing; End Collection is the key byte alone.
C11_ShortItemWidth ==
    enc.item \in ItemNames =>
        LET signed == SignedRange(enc.item)
            widths == { w \in {1, 2, 4} : Holds(enc.data, w, signed) }
        IN  /\ enc.buf = enc.before \o Written
            /\ IF enc.item = "MainCollectionEnd"
               THEN enc.ret = Ok(Unit) /\ Written = <<192>>
               ELSE IF widths = {}
               THEN enc.ret = Err("InvalidPreparsedData") /\ Written = <<>>
               ELSE LET w == CHOOSE x \in widths : \A y \in widths : x <= y
                    IN  /\ enc.ret = Ok(Unit)
                        /\ Len(Written) = 1 + w
                        /\ Written[1] = Items[enc.item] + (IF w = 4 THEN 3 ELSE w)
                        /\ Decode(Tail(Written), signed) = enc.data

\* Logical Minimum -129 was written in two bytes, 0x16 0x7F 0xFF.
C11_Witness ==
    /\ enc.item = "GlobalLogicalMinimum"
    /\ enc.data = I64(TRUE, <<129>>)
    /\ enc.ret = Ok(Unit)
    /\ enc.buf = <<22, 127, 255>>

(***************************************************************************)
(*              reconstruct_descriptor  (SpecReconstruct)                  *)
(***************************************************************************)
\* Link collection nodes of the preparsed data drawn.
MaxNodes == 3
\* Caps of the preparsed data drawn.
NumberOfCaps == 2

\* ReportType::values()
ReportTypeValues == <<"Input", "Output", "Feature">>
ReportTypes == {"Input", "Output", "Feature"}
RtIndex(rt) == CHOOSE k \in 1..3 : ReportTypeValues[k] = rt
\* The report ids the loops over 0..=255 are followed for, and the ids caps use.
RecReportIds == {0, 1}

Reverse(s) == [i \in 1..Len(s) |-> s[Len(s) + 1 - i]]
Max(a, b) == IF a > b THEN a ELSE b

\* The parents of nodes 1..n-1: a lcn's parent has a smaller index.
Parents(n) == { f \in [1..(n - 1) -> 0..(n - 1)] : \A i \in 1..(n - 1) : f[i] < i }

\* The sibling chain (first_child, then next_sibling) of the children of p.
ChainOf(n, par, rev, p) ==
    LET asc == SeqOfSet({ i \in 1..(n - 1) : par[i] = p })
    IN  IF rev THEN Reverse(asc) ELSE asc

\* The link collection lcn array of the tree: lcn 0 is the root.
LinkCollectionNodes(n, par, rev, alias) ==
    [i \in 0..(n - 1) |->
        LET own == ChainOf(n, par, rev, i)
            sib == IF i = 0 THEN <<0>> ELSE ChainOf(n, par, rev, par[i])
            at == CHOOSE k \in 1..Len(sib) : sib[k] = i
        IN  [parent |-> IF i = 0 THEN 0 ELSE par[i],
             number_of_children |-> Len(own),
             next_sibling |-> IF at < Len(sib) THEN sib[at + 1] ELSE 0,
             first_child |-> IF own = <<>> THEN 0 ELSE own[1],
             is_alias |-> i # 0 /\ alias[i],
             link_usage_page |-> 1,
             link_usage |-> i + 1,
             collection_type |-> IF i = 0 THEN 1 ELSE 2]]

\* A link collection with IsAlias set is aliased to its next sibling.
AliasWellFormed(nodes) ==
    \A i \in DOMAIN nodes : nodes[i].is_alias => nodes[i].next_sibling # 0

LinkCollectionTrees ==
    UNION { { t \in { LinkCollectionNodes(n, par, rev, alias) :
                        par \in Parents(n), rev \in BOOLEAN,
                        alias \in [1..(n - 1) -> BOOLEAN] } :
                AliasWellFormed(t) } : n \in 1..MaxNodes }

\* The caps of a collection: one byte each, at byte 1 or 2 of the report.
CapChoices(n) ==
    [link_collection : 0..(n - 1), report_id : RecReportIds, rt : ReportTypes,
     byte_position : {1, 2}, bit_position : {0}, report_size : {8},
     report_count : {1}]

\* The caps array: the Input caps, then the Output caps, then the Feature caps.
CapLists(n) ==
    UNION { { l \in [1..k -> CapChoices(n)] :
                \A i \in 1..(k - 1) : RtIndex(l[i].rt) <= RtIndex(l[i + 1].rt) } :
            k \in 0..NumberOfCaps }

\* BitRange::default(), and min and max over the values that are there.
BitRange_default == [first_bit |-> None, last_bit |-> None]
OptMin(a, b) ==
    IF a = None THEN b ELSE IF b = None THEN a ELSE Some(Min(a.val, b.val))
OptMax(a, b) ==
    IF a = None THEN b ELSE IF b = None THEN a ELSE Some(Max(a.val, b.val))

\* The keys of coll_bit_range, and the order the loops over report id and
\* report type of the propagation visit them in.
RangeKeys(n) == (0..(n - 1)) \X RecReportIds \X ReportTypes
KeysOrder ==
    LET ids == SeqOfSet(RecReportIds)
    IN  [k \in 1..(3 * Len(ids)) |->
            <<ids[((k - 1) \div 3) + 1], ReportTypeValues[((k - 1) % 3) + 1]>>]

cap_first_bit(caps) == (caps.byte_position - 1) * 8 + caps.bit_position
cap_last_bit(caps) == cap_first_bit(caps) + caps.report_size * caps.report_count - 1

RECURSIVE caps_bit_ranges(_, _)
\* The loop over the caps: each cap widens the range of its collection.
caps_bit_ranges(range, caps_list) ==
    IF caps_list = <<>> THEN range
    ELSE LET caps == Head(caps_list)
             key == <<caps.link_collection, caps.report_id, caps.rt>>
         IN  caps_bit_ranges(
                 [range EXCEPT ![key] =
                     [first_bit |-> OptMin(@.first_bit, Some(cap_first_bit(caps))),
                      last_bit |-> OptMax(@.last_bit, Some(cap_last_bit(caps)))]],
                 Tail(caps_list))

\* Iterations a walk over the tree is followed for.
WalkFuel == 4 * MaxNodes + 4

\* One iteration of the loop that determines the levels.
levels_step(nodes, w) ==
    LET idx == w.collection_node_idx
        lv == [w.coll_levels EXCEPT ![idx] = w.actual_coll_level]
        lcn == nodes[idx]
    IN  IF lcn.number_of_children > 0 /\ lv[lcn.first_child] = -1
        THEN [w EXCEPT !.actual_coll_level = @ + 1,
                       !.coll_levels = [lv EXCEPT ![idx] = w.actual_coll_level + 1],
                       !.max_coll_level = Max(@, w.actual_coll_level + 1),
                       !.coll_number_of_direct_childs[idx] = @ + 1,
                       !.collection_node_idx = lcn.first_child]
        ELSE IF lcn.next_sibling # 0
        THEN [w EXCEPT !.coll_levels = lv,
                       !.coll_number_of_direct_childs[lcn.parent] = @ + 1,
                       !.collection_node_idx = lcn.next_sibling]
        ELSE [w EXCEPT !.coll_levels = lv,
                       !.actual_coll_level = @ - 1,
                       !.collection_node_idx =
                           IF w.actual_coll_level - 1 >= 0 THEN lcn.parent ELSE @]

RECURSIVE levels_walk(_, _, _)
levels_walk(nodes, w, fuel) ==
    IF w.actual_coll_level < 0 THEN [w EXCEPT !.ended = TRUE]
    ELSE IF fuel = 0 THEN w
    ELSE levels_walk(nodes, levels_step(nodes, w), fuel - 1)

\* The levels, the numbers of direct children and the deepest level.
collection_levels(nodes) ==
    levels_walk(nodes,
        [actual_coll_level |-> 0, collection_node_idx |-> 0,
         coll_levels |-> [i \in DOMAIN nodes |-> -1],
         coll_number_of_direct_childs |-> [i \in DOMAIN nodes |-> 0],
         max_coll_level |-> 0, ended |-> FALSE],
        WalkFuel)

\* The child index after the body of the loops over report id and type.
next_child_in_keys_loop(nodes, child_idx, k) == nodes[child_idx].next_sibling

RECURSIVE merge_keys(_, _, _, _, _)
\* The loops over report id and report type inside the loop over the
\* children of parent: the k-th key on.
merge_keys(range, nodes, parent, child_idx, k) ==
    IF k > Len(KeysOrder) THEN [range |-> range, child_idx |-> child_idx]
    ELSE LET rid == KeysOrder[k][1]
             rt == KeysOrder[k][2]
             child == range[<<child_idx, rid, rt>>]
         IN  merge_keys(
                 [range EXCEPT ![<<parent, rid, rt>>] =
                     [first_bit |-> OptMin(@.first_bit, child.first_bit),
                      last_bit |-> OptMax(@.last_bit, child.last_bit)]],
                 nodes, parent,
                 next_child_in_keys_loop(nodes, child_idx, k), k + 1)

RECURSIVE merge_children(_, _, _, _)
\* while child_idx != 0
merge_children(range, nodes, parent, child_idx) ==
    IF child_idx = 0 THEN range
    ELSE LET r == merge_keys(range, nodes, parent, child_idx, 1)
         IN  merge_children(r.range, nodes, parent, r.child_idx)

RECURSIVE propagate_level(_, _, _, _, _)
\* for collection_node_idx in 0..link_collection_nodes.len()
propagate_level(range, nodes, coll_levels, level, idx) ==
    IF idx \notin DOMAIN nodes THEN range
    ELSE propagate_level(
             IF coll_levels[idx] = level
             THEN merge_children(range, nodes, idx, nodes[idx].first_child)
             ELSE range,
             nodes, coll_levels, level, idx + 1)

RECURSIVE propagate_levels(_, _, _, _)
\* for actual_coll_level in (0..max_coll_level).rev(), from level down
propagate_levels(range, nodes, coll_levels, level) ==
    IF level < 0 THEN range
    ELSE propagate_levels(propagate_level(range, nodes, coll_levels, level, 0),
                          nodes, coll_levels, level - 1)
\* coll_child_order.insert(key, value)
MapInsert(map, key, value) ==
    [x \in DOMAIN map \cup {key} |-> IF x = key THEN value ELSE map[x]]

RECURSIVE children_reversed(_, _, _, _, _)
\* The loop that lists the children of idx against the sibling chain: the
\* child at child_idx takes place child_count.
children_reversed(order, nodes, idx, child_idx, child_count) ==
    LET o == MapInsert(order, <<idx, child_count>>, child_idx)
    IN  IF nodes[child_idx].next_sibling # 0
        THEN children_reversed(o, nodes, idx, nodes[child_idx].next_sibling,
                               child_count - 1)
        ELSE o

\* The (report type, report id, child place) triples of the sort, in the
\* order of its three loops.
SortTriples(direct_childs) ==
    LET ids == SeqOfSet(RecReportIds)
        per == direct_childs - 1
    IN  [k \in 1..(3 * Len(ids) * per) |->
            [rt |-> ReportTypeValues[((k - 1) \div (Len(ids) * per)) + 1],
             report_idx |-> ids[(((k - 1) \div per) % Len(ids)) + 1],
             child_idx |-> ((k - 1) % per) + 1]]

RECURSIVE sort_children(_, _, _, _)
\* The sort of the children of idx by first bit: neighbours are swapped when
\* both have a range for the key and the earlier one starts later.
sort_children(order, range, idx, triples) ==
    IF triples = <<>> THEN order
    ELSE LET t == Head(triples)
             prev_coll_idx == order[<<idx, t.child_idx - 1>>]
             cur_coll_idx == order[<<idx, t.child_idx>>]
             prev == range[<<prev_coll_idx, t.report_idx, t.rt>>].first_bit
             cur == range[<<cur_coll_idx, t.report_idx, t.rt>>].first_bit
             swap == prev # None /\ cur # None /\ prev.val > cur.val
         IN  sort_children(
                 IF swap
                 THEN MapInsert(MapInsert(order, <<idx, t.child_idx - 1>>, cur_coll_idx),
                                <<idx, t.child_idx>>, prev_coll_idx)
                 ELSE order,
                 range, idx, Tail(triples))

\* One iteration of the loop that determines the child order.
order_step(nodes, range, direct_childs, w) ==
    LET idx == w.collection_node_idx
        lcn == nodes[idx]
    IN  IF direct_childs[idx] # 0 /\ ~w.coll_parsed_flag[lcn.first_child]
        THEN LET listed == children_reversed(w.coll_child_order, nodes, idx,
                                             lcn.first_child, direct_childs[idx] - 1)
             IN  [w EXCEPT !.coll_parsed_flag[lcn.first_child] = TRUE,
                           !.coll_child_order =
                               IF direct_childs[idx] > 1
                               THEN sort_children(listed, range, idx,
                                                  SortTriples(direct_childs[idx]))
                               ELSE listed,
                           !.actual_coll_level = @ + 1,
                           !.collection_node_idx = lcn.first_child]
        ELSE IF lcn.next_sibling # 0
        THEN [w EXCEPT !.collection_node_idx = lcn.next_sibling]
        ELSE [w EXCEPT !.actual_coll_level = @ - 1,
                       !.collection_node_idx =
                           IF w.actual_coll_level - 1 >= 0 THEN lcn.parent ELSE @]

RECURSIVE order_walk(_, _, _, _, _)
order_walk(nodes, range, direct_childs, w, fuel) ==
    IF w.actual_coll_level < 0 THEN [w EXCEPT !.ended = TRUE]
    ELSE IF fuel = 0 THEN w
    ELSE order_walk(nodes, range, direct_childs,
                    order_step(nodes, range, direct_childs, w), fuel - 1)

child_collection_order(nodes, range, direct_childs) ==
    order_walk(nodes, range, direct_childs,
        [actual_coll_level |-> 0, collection_node_idx |-> 0,
         coll_parsed_flag |-> [i \in DOMAIN nodes |-> FALSE],
         coll_child_order |-> <<>>, ended |-> FALSE],
        WalkFuel)

\* MainItemNode::new(0, 0, Collection, 0, collection_index, main_item_type, 0)
MainItemNode_new(collection_index, main_item_type) ==
    [collection_index |-> collection_index, main_item_type |-> main_item_type]

\* append_main_item_node: the lcn goes to the end of the list that list
\* points into; an empty list starts with it.
append_main_item_node(lcn, l) ==
    [l EXCEPT !.items = Append(@, lcn),
              !.main_item_list = IF @ = None THEN Some(1) ELSE @]

\* insert_main_item_node: the lcn goes right after the lcn at place at.
insert_main_item_node(lcn, l, at) ==
    [l EXCEPT !.items = SubSeq(@, 1, at) \o <<lcn>> \o SubSeq(@, at + 1, Len(@))]

\* The first alias collection of a group: DelimiterUsage and DelimiterClose
\* are appended, and the delimiter places are taken from main_item_list.
open_alias_group(w, c) ==
    LET l == append_main_item_node(MainItemNode_new(c, "DelimiterClose"),
                 append_main_item_node(MainItemNode_new(c, "DelimiterUsage"), w))
    IN  [l EXCEPT !.first_delimiter_node = w.main_item_list,
                  !.delimiter_close_node = l.main_item_list]

\* A Collection item is appended for c and the walk goes one level down.
open_collection(w, c) ==
    [append_main_item_node(MainItemNode_new(c, "Collection"), w)
        EXCEPT !.actual_coll_level = @ + 1]

RECURSIVE find_next_child(_, _, _, _)
\* while coll_last_written_child[idx] != coll_child_order[(idx, next_child - 1)]:
\* the place found, or -1 where the lookup has no entry.
find_next_child(order, idx, last_written, next_child) ==
    IF <<idx, next_child - 1>> \notin DOMAIN order THEN -1
    ELSE IF last_written # order[<<idx, next_child - 1>>]
    THEN find_next_child(order, idx, last_written, next_child + 1)
    ELSE next_child

\* One iteration of the loop that lists Collection and CollectionEnd items.
items_step(nodes, order, direct_childs, w) ==
    LET idx == w.collection_node_idx
    IN  IF direct_childs[idx] # 0 /\ w.coll_last_written_child[idx] = -1
        THEN IF <<idx, 0>> \notin DOMAIN order THEN [w EXCEPT !.panic = TRUE]
             ELSE LET c == order[<<idx, 0>>]
                      v == [w EXCEPT !.coll_last_written_child[idx] = c,
                                     !.collection_node_idx = c]
                  IN  IF nodes[c].is_alias /\ v.first_delimiter_node = None
                      THEN open_alias_group(v, c)
                      ELSE open_collection(v, c)
        ELSE IF direct_childs[idx] > 1
                /\ (<<idx, direct_childs[idx] - 1>> \notin DOMAIN order
                    \/ w.coll_last_written_child[idx]
                         # order[<<idx, direct_childs[idx] - 1>>])
        THEN LET next_child ==
                     IF <<idx, direct_childs[idx] - 1>> \notin DOMAIN order THEN -1
                     ELSE find_next_child(order, idx, w.coll_last_written_child[idx], 1)
             IN  IF next_child = -1 \/ <<idx, next_child>> \notin DOMAIN order
                 THEN [w EXCEPT !.panic = TRUE]
                 ELSE LET c == order[<<idx, next_child>>]
                          v == [w EXCEPT !.coll_last_written_child[idx] = c,
                                         !.collection_node_idx = c]
                          fdn == v.first_delimiter_node
                          grouped ==
                              IF nodes[c].is_alias /\ fdn = None
                              THEN open_alias_group(v, c)
                              ELSE IF nodes[c].is_alias
                              THEN insert_main_item_node(
                                       MainItemNode_new(c, "DelimiterUsage"), v, fdn.val)
                              ELSE IF fdn # None
                              THEN [insert_main_item_node(
                                        MainItemNode_new(c, "DelimiterClose"),
                                        insert_main_item_node(
                                            MainItemNode_new(c, "DelimiterUsage"),
                                            v, fdn.val),
                                        fdn.val)
                                      EXCEPT !.first_delimiter_node = None,
                                             !.main_item_list = v.delimiter_close_node,
                                             !.delimiter_close_node = None]
                              ELSE v
                      IN  IF nodes[c].is_alias THEN grouped
                          ELSE open_collection(grouped, c)
        ELSE [append_main_item_node(MainItemNode_new(idx, "CollectionEnd"), w)
                EXCEPT !.actual_coll_level = @ - 1,
                       !.collection_node_idx = nodes[idx].parent]

RECURSIVE items_walk(_, _, _, _, _)
items_walk(nodes, order, direct_childs, w, fuel) ==
    IF w.panic THEN w
    ELSE IF w.actual_coll_level < 0 THEN [w EXCEPT !.ended = TRUE]
    ELSE IF fuel = 0 THEN w
    ELSE items_walk(nodes, order, direct_childs,
                    items_step(nodes, order, direct_childs, w), fuel - 1)

\* The list of the Collection and CollectionEnd main items.
collection_items(nodes, order, direct_childs) ==
    items_walk(nodes, order, direct_childs,
        append_main_item_node(MainItemNode_new(0, "Collection"),
            [actual_coll_level |-> 0, collection_node_idx |-> 0,
             coll_last_written_child |-> [i \in DOMAIN nodes |-> -1],
             first_delimiter_node |-> None, delimiter_close_node |-> None,
             main_item_list |-> None, items |-> <<>>,
             panic |-> FALSE, ended |-> FALSE]),
        WalkFuel)
\* A u8 or u16 below 256 as the i64 handed to the writer.
SmallI64(n) == I64(FALSE, IF n = 0 THEN <<>> ELSE <<n>>)

\* encode_descriptor, the writes of one Collection, CollectionEnd or
\* Delimiter item: the items written with their data, the usage page written
\* last and whether the next Usage is inhibited.
encode_item(e, current, nodes) ==
    LET lcn == nodes[current.collection_index]
        page == e.last_usage_page # lcn.link_usage_page
    IN  CASE current.main_item_type = "Collection" ->
               [e EXCEPT
                  !.last_usage_page = lcn.link_usage_page,
                  !.inhibit_write_of_usage = FALSE,
                  !.written = @
                      \o (IF page THEN <<<<"GlobalUsagePage", lcn.link_usage_page>>>>
                          ELSE <<>>)
                      \o (IF e.inhibit_write_of_usage THEN <<>>
                          ELSE <<<<"LocalUsage", lcn.link_usage>>>>)
                      \o <<<<"MainCollection", lcn.collection_type>>>>]
          [] current.main_item_type = "CollectionEnd" ->
               [e EXCEPT !.written = Append(@, <<"MainCollectionEnd", 0>>)]
          [] current.main_item_type = "DelimiterOpen" ->
               [e EXCEPT
                  !.last_usage_page = lcn.link_usage_page,
                  !.written = @
                      \o (IF page THEN <<<<"GlobalUsagePage", lcn.collection_type>>>>
                          ELSE <<>>)
                      \o <<<<"LocalDelimiter", 1>>>>]
          [] current.main_item_type = "DelimiterUsage" ->
               [e EXCEPT !.written = Append(@, <<"LocalUsage", lcn.link_usage>>)]
          [] current.main_item_type = "DelimiterClose" ->
               [e EXCEPT !.inhibit_write_of_usage = TRUE,
                         !.written = Append(@, <<"LocalDelimiter", 0>>)]

RECURSIVE encode_items(_, _, _)
encode_items(e, list, nodes) ==
    IF list = <<>> THEN e
    ELSE encode_items(encode_item(e, Head(list), nodes), Tail(list), nodes)

RECURSIVE write_all(_)
\* The bytes the writer holds after the writes.
write_all(written) ==
    IF written = <<>> THEN <<>>
    ELSE DescriptorWriter_write(Head(written)[1], SmallI64(Head(written)[2])).val
         \o write_all(Tail(written))

\* encode_descriptor on a list of Collection, CollectionEnd and Delimiter items.
encode_descriptor(main_item_list, nodes) ==
    LET e == encode_items([last_usage_page |-> 0, inhibit_write_of_usage |-> FALSE,
                           written |-> <<>>], main_item_list, nodes)
    IN  [written |-> e.written, bytes |-> write_all(e.written)]

ReconstructOnly == UNCHANGED <<parseVars, scanVars, devVars, ctx, enc, opn>>

\* The preparsed data handed to reconstruct_descriptor.
InitReconstruct ==
    /\ \E nodes \in LinkCollectionTrees :
         \E caps_list \in CapLists(Cardinality(DOMAIN nodes)) :
           rec = [pc |-> "bit_ranges",
                 link_collection_nodes |-> nodes,
                 caps_list |-> caps_list,
                 coll_bit_range |-> [key \in RangeKeys(Cardinality(DOMAIN nodes))
                                       |-> BitRange_default],
                 coll_levels |-> <<>>,
                 coll_number_of_direct_childs |-> <<>>,
                 max_coll_level |-> 0,
                 coll_child_order |-> <<>>,
                 main_item_list |-> <<>>,
                 descriptor |-> None]
    /\ ctx = IdleValue
    /\ enc = IdleValue
    /\ opn = IdleValue
    /\ ParseIdle
    /\ ScanIdle
    /\ DevIdle

\* The bit range of each collection's own caps.
CapsBitRanges ==
    /\ rec.pc = "bit_ranges"
    /\ rec' = [rec EXCEPT !.pc = "levels",
                        !.coll_bit_range = caps_bit_ranges(@, rec.caps_list)]
    /\ ReconstructOnly

\* The level and the number of direct children of each collection.
CollectionLevels ==
    /\ rec.pc = "levels"
    /\ LET w == collection_levels(rec.link_collection_nodes)
       IN  rec' = [rec EXCEPT
                    !.pc = IF w.ended THEN "propagate" ELSE "diverged",
                    !.coll_levels = w.coll_levels,
                    !.coll_number_of_direct_childs = w.coll_number_of_direct_childs,
                    !.max_coll_level = w.max_coll_level]
    /\ ReconstructOnly

\* The bit ranges of the children are merged into their parents.
PropagateBitRanges ==
    /\ rec.pc = "propagate"
    /\ rec' = [rec EXCEPT
                !.pc = "child_order",
                !.coll_bit_range =
                    propagate_levels(@, rec.link_collection_nodes, rec.coll_levels,
                                     rec.max_coll_level - 1)]
    /\ ReconstructOnly

\* The order of the children of each collection.
ChildCollectionOrder ==
    /\ rec.pc = "child_order"
    /\ LET w == child_collection_order(rec.link_collection_nodes, rec.coll_bit_range,
                                       rec.coll_number_of_direct_childs)
       IN  rec' = [rec EXCEPT
                    !.pc = IF w.ended THEN "items" ELSE "diverged",
                    !.coll_child_order = w.coll_child_order]
    /\ ReconstructOnly

\* The Collection and CollectionEnd items of main_item_list.
CollectionItems ==
    /\ rec.pc = "items"
    /\ LET w == collection_items(rec.link_collection_nodes, rec.coll_child_order,
                                 rec.coll_number_of_direct_childs)
       IN  rec' = [rec EXCEPT
                    !.pc = IF w.panic THEN "panic"
                           ELSE IF w.ended THEN "encode" ELSE "diverged",
                    !.main_item_list = w.items]
    /\ ReconstructOnly

\* encode_descriptor on the list.
EncodeDescriptor ==
    /\ rec.pc = "encode"
    /\ rec' = [rec EXCEPT
                !.pc = "done",
                !.descriptor =
                    Some(encode_descriptor(rec.main_item_list, rec.link_collection_nodes))]
    /\ ReconstructOnly

NextReconstruct ==
    \/ CapsBitRanges
    \/ CollectionLevels
    \/ PropagateBitRanges
    \/ ChildCollectionOrder
    \/ CollectionItems
    \/ EncodeDescriptor

SpecReconstruct == InitReconstruct /\ [][NextReconstruct]_vars

(***************************************************************************)
(* Claim C12: the bit ranges after the propagation.                        *)
(***************************************************************************)
\* The propagation is over.
Propagated == rec.pc \in {"child_order", "items", "encode", "done", "panic"}

RECURSIVE AncestorOrSelf(_, _, _)
\* a is c or an ancestor of c.
AncestorOrSelf(nodes, a, c) ==
    IF a = c THEN TRUE
    ELSE IF c = 0 THEN FALSE
    ELSE AncestorOrSelf(nodes, a, nodes[c].parent)

\* The union of the ranges of the caps of the collections of the subtree of
\* c, for one report id and type: None when there is none.
SubtreeRange(c, rid, rt) ==
    LET own == { i \in 1..Len(rec.caps_list) :
                   /\ rec.caps_list[i].report_id = rid
                   /\ rec.caps_list[i].rt = rt
                   /\ AncestorOrSelf(rec.link_collection_nodes, c,
                                     rec.caps_list[i].link_collection) }
    IN  IF own = {} THEN BitRange_default
        ELSE [first_bit |->
                 Some(CHOOSE b \in { cap_first_bit(rec.caps_list[i]) : i \in own } :
                        \A i \in own : b <= cap_first_bit(rec.caps_list[i])),
              last_bit |->
                 Some(CHOOSE b \in { cap_last_bit(rec.caps_list[i]) : i \in own } :
                        \A i \in own : b >= cap_last_bit(rec.caps_list[i]))]

\* C12 as stated: after the propagation, for every report id and report
\* type, the range of the root is the union (least first bit, greatest last
\* bit) of the ranges of all leaves and the range of every collection with
\* children is the union of the ranges of its subtree.  Refuted: the loop
\* over the children moves to the next sibling after every report type.
C12_AsStated ==
    Propagated =>
        \A key \in DOMAIN rec.coll_bit_range :
            rec.coll_bit_range[key] = SubtreeRange(key[1], key[2], key[3])

(***************************************************************************)
(* Claims C19 and C20: the Collection and Delimiter items of the list.     *)
(***************************************************************************)
\* The list of collection items is built.
Listed == rec.pc \in {"encode", "done"}

\* The places of the items of a type that collection c contributes.
PlacesOf(c, type) ==
    { k \in 1..Len(rec.main_item_list) :
        /\ rec.main_item_list[k].collection_index = c
        /\ rec.main_item_list[k].main_item_type = type }

\* The places of the items that open collection c: its Collection item, or
\* its DelimiterUsage item when it is an alias.
OpeningPlaces(c) ==
    IF rec.link_collection_nodes[c].is_alias THEN PlacesOf(c, "DelimiterUsage")
    ELSE PlacesOf(c, "Collection")

\* Collection c has one opening item and one CollectionEnd, in this order,
\* and they lie inside those of its parent.
ProperlyNested(c) ==
    /\ Cardinality(OpeningPlaces(c)) = 1
    /\ Cardinality(PlacesOf(c, "CollectionEnd")) = 1
    /\ \A o \in OpeningPlaces(c), e \in PlacesOf(c, "CollectionEnd") :
         /\ o < e
         /\ c # 0 =>
              LET p == rec.link_collection_nodes[c].parent
              IN  /\ \A po \in OpeningPlaces(p) : po < o
                  /\ \A pe \in PlacesOf(p, "CollectionEnd") : e < pe

\* No collection of the tree is an alias.
NoAlias == \A c \in DOMAIN rec.link_collection_nodes : ~rec.link_collection_nodes[c].is_alias

\* C19 as stated: the walks over a well-formed link collection tree end, and
\* in the list they build the first item is the Collection of node 0 and
\* every collection has exactly one opening item and exactly one
\* CollectionEnd, the opening first, both between the opening item and the
\* CollectionEnd of its parent.  Refuted by a tree with an alias collection:
\* the walk ends before node 0 is closed.
C19_AsStated ==
    /\ rec.pc \notin {"diverged", "panic"}
    /\ Listed =>
          /\ rec.main_item_list[1] = MainItemNode_new(0, "Collection")
          /\ \A c \in DOMAIN rec.link_collection_nodes : ProperlyNested(c)

\* The same on trees without alias collections.
C19_WithoutAlias == NoAlias => C19_AsStated

\* The items of the types that make an alias group.
IsDelimiter(k, type) == rec.main_item_list[k].main_item_type = type

\* The items from place a to place b are one alias group: a DelimiterOpen,
\* DelimiterUsage items only, a DelimiterClose.
IsAliasGroup(a, b) ==
    /\ a + 1 < b
    /\ IsDelimiter(a, "DelimiterOpen")
    /\ IsDelimiter(b, "DelimiterClose")
    /\ \A k \in (a + 1)..(b - 1) : IsDelimiter(k, "DelimiterUsage")

\* C20 as stated, the list: every Delimiter item lies in a group made of one
\* DelimiterOpen, then DelimiterUsage items, then one DelimiterClose, and
\* every alias collection has its DelimiterUsage in such a group and no
\* Collection item of its own.  Refuted: no DelimiterOpen is ever listed.
C20_AsStated ==
    Listed =>
        /\ \A k \in 1..Len(rec.main_item_list) :
              rec.main_item_list[k].main_item_type
                    \in {"DelimiterOpen", "DelimiterUsage", "DelimiterClose"}
                => \E a \in 1..k, b \in k..Len(rec.main_item_list) : IsAliasGroup(a, b)
        /\ \A c \in DOMAIN rec.link_collection_nodes :
              rec.link_collection_nodes[c].is_alias =>
                /\ PlacesOf(c, "DelimiterUsage") # {}
                /\ PlacesOf(c, "Collection") = {}
        /\ rec.pc = "done" =>
              \A k \in 1..Len(rec.descriptor.val.written) :
                  rec.descriptor.val.written[k] = <<"LocalDelimiter", 0>>
                    => \E a \in 1..(k - 1) :
                          rec.descriptor.val.written[a] = <<"LocalDelimiter", 1>>

(***************************************************************************)
(* Claim C15: get_device_info of an opened device against enumeration.     *)
(***************************************************************************)
\* An enumerated path was opened and get_device_info returned a DeviceInfo.
GotDeviceInfo == dev_info.tag = "done" /\ dev_info.ret.tag = "Ok"

\* C15 as stated: for every entry of the enumeration, opening its path and
\* calling get_device_info gives the DeviceInfo of that entry, usage_page and
\* usage included.  Refuted on Linux: get_device_info gives the first element
\* of the node's vector, whichever entry was opened.
C15_AsStated == GotDeviceInfo => dev_info.ret.val = infos.val[dev_info.entry]

\* What does hold: the DeviceInfo is the one of the first entry of the node.
C15_FirstEntry == GotDeviceInfo => dev_info.ret.val = infos.val[1]

(***************************************************************************)
(* SpecOpen: the Windows backend's enumerate_devices and open_path, with   *)
(* the OS calls they make.                                                 *)
(***************************************************************************)
\* How many times CM_Get_Device_Interface_ListW may answer CR_BUFFER_SMALL
\* in one call of get_interface_list.
MaxBufferSmall == 2

\* The device interface paths of the machine.
Paths == {1, 2}

\* What a path is: not present, a plain HID interface, a system-managed one
\* (keyboard, mouse), or one another process holds exclusively.
PathKinds == {"absent", "hid", "system", "exclusive"}

\* One OS call: the function, what it was called on, the access asked for
\* and the error it gave ("OK" when it succeeded).
OsCall(fn, target, access, error) ==
    [fn |-> fn, target |-> target, access |-> access, error |-> error]

\* CreateFileW on a path of a kind with GENERIC_READ | GENERIC_WRITE ("rw")
\* or with no access ("none").
CreateFileW(kind, access) ==
    IF kind = "absent" THEN "ERROR_FILE_NOT_FOUND"
    ELSE IF access = "rw" /\ kind = "system" THEN "ERROR_ACCESS_DENIED"
    ELSE IF access = "rw" /\ kind = "exclusive" THEN "ERROR_SHARING_VIOLATION"
    ELSE "OK"

\* open_device: the call it makes and the handle or the error.
open_device(kinds, path, open_rw) ==
    LET access == IF open_rw THEN "rw" ELSE "none"
        error == CreateFileW(kinds[path], access)
    IN  [log |-> <<OsCall("CreateFileW", path, access, error)>>,
         ret |-> IF error = "OK" THEN Ok([path |-> path, access |-> access])
                 ELSE Err(error)]

\* get_device_info: the DeviceInfo read through a handle of the path.
get_device_info(path) == [path |-> path, vendor_id |-> path, product_id |-> 1]

\* open_path without the fallback, and with the fallback tried twice.
open_handle_once(kinds, path) == open_device(kinds, path, TRUE)

\* open_path, lines 396-404: open read-write, or else without access.
open_handle(kinds, path) ==
    LET rw == open_device(kinds, path, TRUE)
        no == open_device(kinds, path, FALSE)
    IN  IF IsOk(rw.ret) THEN rw
        ELSE [log |-> rw.log \o no.log, ret |-> no.ret]

\* What the calls after the open may give: HidD_SetNumInputBuffers fails,
\* the preparsed data or the caps cannot be had, or all is well.
AfterOpen == {"ok", "set_num_input_buffers_failed", "preparsed_data_failed"}

\* open_path
open_path(kinds, path, after) ==
    LET h == open_handle(kinds, path)
    IN  IF ~IsOk(h.ret) THEN h
        ELSE IF after = "set_num_input_buffers_failed"
        THEN [log |-> h.log \o <<OsCall("HidD_SetNumInputBuffers", path, "none", "ERROR_GEN_FAILURE")>>,
              ret |-> Err("ERROR_GEN_FAILURE")]
        ELSE IF after = "preparsed_data_failed"
        THEN [log |-> h.log \o <<OsCall("HidD_SetNumInputBuffers", path, "none", "OK"),
                                 OsCall("HidD_GetPreparsedData", path, "none", "ERROR_GEN_FAILURE")>>,
              ret |-> Err("ERROR_GEN_FAILURE")]
        ELSE [log |-> h.log \o <<OsCall("HidD_SetNumInputBuffers", path, "none", "OK"),
                                 OsCall("HidD_GetPreparsedData", path, "none", "OK")>>,
              ret |-> Ok([device_handle |-> h.ret.val,
                          device_info |-> get_device_info(path)])]

\* How the loop of get_interface_list ends: the list call succeeds, the list
\* call fails with something else than CR_BUFFER_SMALL, or the size call fails.
ListEnds == {"CR_SUCCESS", "CR_FAILURE", "size:CR_FAILURE"}

\* One turn of the loop of get_interface_list: the size call, then the list
\* call with the result cr.
ListTurn(cr) ==
    << OsCall("CM_Get_Device_Interface_List_SizeW", 0, "none", "OK"),
       OsCall("CM_Get_Device_Interface_ListW", 0, "none", cr) >>

RECURSIVE BufferSmallTurns(_)
BufferSmallTurns(n) ==
    IF n = 0 THEN <<>> ELSE ListTurn("CR_BUFFER_SMALL") \o BufferSmallTurns(n - 1)

\* Interface::get_interface_list: n turns in which the list outgrew the
\* buffer, then the turn that ends the loop.
get_interface_list(kinds, n, end) ==
    [log |-> BufferSmallTurns(n) \o
             (IF end = "size:CR_FAILURE"
              THEN <<OsCall("CM_Get_Device_Interface_List_SizeW", 0, "none", "CR_FAILURE")>>
              ELSE ListTurn(IF end = "CR_SUCCESS" THEN "OK" ELSE end)),
     ret |-> IF end = "CR_SUCCESS"
             THEN Ok(SeqOfSet({p \in Paths : kinds[p] # "absent"}))
             ELSE Err("CR_FAILURE")]

\* The filter_map of enumerate_devices over the interfaces: each is opened
\* without access once, and left out when that fails or the ids do not match.
RECURSIVE enumerate_interfaces(_, _, _, _)
enumerate_interfaces(kinds, list, vendor_id, product_id) ==
    IF list = <<>> THEN [log |-> <<>>, ret |-> <<>>]
    ELSE LET h == open_device(kinds, Head(list), FALSE)
             info == get_device_info(Head(list))
             rest == enumerate_interfaces(kinds, Tail(list), vendor_id, product_id)
             keep == /\ IsOk(h.ret)
                     /\ (vendor_id = 0 \/ info.vendor_id = vendor_id)
                     /\ (product_id = 0 \/ info.product_id = product_id)
         IN  [log |-> h.log \o rest.log,
              ret |-> IF keep THEN <<info>> \o rest.ret ELSE rest.ret]

\* enumerate_devices
enumerate_devices(kinds, vendor_id, product_id, n, end) ==
    LET l == get_interface_list(kinds, n, end)
    IN  IF ~IsOk(l.ret) THEN l
        ELSE LET e == enumerate_interfaces(kinds, l.ret.val, vendor_id, product_id)
             IN  [log |-> l.log \o e.log, ret |-> Ok(e.ret)]

OpenOnly == UNCHANGED <<parseVars, scanVars, devVars, ctx, enc, rec>>

InitOpen ==
    /\ \E kinds \in [Paths -> PathKinds] :
          opn = [kinds |-> kinds, op |-> "none", path |-> 0, log |-> <<>>, ret |-> None]
    /\ ctx = IdleValue
    /\ enc = IdleValue
    /\ rec = IdleValue
    /\ ParseIdle
    /\ ScanIdle
    /\ DevIdle

\* HidApi::open_path on the Windows backend.
CallOpenPath ==
    /\ \E path \in Paths, after \in AfterOpen :
          LET r == open_path(opn.kinds, path, after)
          IN  opn' = [opn EXCEPT !.op = "open_path", !.path = path,
                                 !.log = r.log, !.ret = r.ret]
    /\ OpenOnly

\* HidApi::add_devices on the Windows backend.
CallEnumerateDevices ==
    /\ \E vendor_id \in VidFilters, product_id \in PidFilters,
          n \in 0..MaxBufferSmall, end \in ListEnds :
          LET r == enumerate_devices(opn.kinds, vendor_id, product_id, n, end)
          IN  opn' = [opn EXCEPT !.op = "enumerate_devices", !.path = 0,
                                 !.log = r.log, !.ret = r.ret]
    /\ OpenOnly

\* A device is plugged in or removed, or changes hands.
PathChanges ==
    /\ \E path \in Paths, kind \in PathKinds :
          opn' = [opn EXCEPT !.kinds[path] = kind]
    /\ OpenOnly

NextOpen == CallOpenPath \/ CallEnumerateDevices \/ PathChanges

SpecOpen == InitOpen /\ [][NextOpen]_vars

(***************************************************************************)
(* Claim C16: where an OS call is repeated after it failed.                *)
(***************************************************************************)
\* Call j of the last operation repeats call i, which had failed.
IsRetry(i, j) ==
    /\ i < j
    /\ opn.log[i].fn = opn.log[j].fn
    /\ opn.log[i].target = opn.log[j].target
    /\ opn.log[i].error # "OK"

Retries == { ij \in (DOMAIN opn.log) \X (DOMAIN opn.log) : IsRetry(ij[1], ij[2]) }

CallsOf(fn) == { i \in DOMAIN opn.log : opn.log[i].fn = fn }

MaxSiblings == 3

\* The trees of MaxSiblings + 1 nodes without alias collections.
SiblingTrees ==
    { LinkCollectionNodes(MaxSiblings + 1, par, rev, [i \in 1..MaxSiblings |-> FALSE]) :
        par \in Parents(MaxSiblings + 1), rev \in BOOLEAN }

\* One-byte Input caps of report 0, at the bytes 1..MaxSiblings, each byte
\* used once.
SiblingCaps ==
    { l \in [1..MaxSiblings ->
               [link_collection : 0..MaxSiblings, report_id : {0}, rt : {"Input"},
                byte_position : 1..MaxSiblings, bit_position : {0},
                report_size : {8}, report_count : {1}]] :
        \A i, j \in 1..MaxSiblings : i # j => l[i].byte_position # l[j].byte_position }

InitChildOrder ==
    /\ \E nodes \in SiblingTrees, caps_list \in SiblingCaps :
           rec = [pc |-> "bit_ranges",
                 link_collection_nodes |-> nodes,
                 caps_list |-> caps_list,
                 coll_bit_range |-> [key \in RangeKeys(MaxSiblings + 1)
                                       |-> BitRange_default],
                 coll_levels |-> <<>>,
                 coll_number_of_direct_childs |-> <<>>,
                 max_coll_level |-> 0,
                 coll_child_order |-> <<>>,
                 main_item_list |-> <<>>,
                 descriptor |-> None]
    /\ ctx = IdleValue
    /\ enc = IdleValue
    /\ opn = IdleValue
    /\ ParseIdle
    /\ ScanIdle
    /\ DevIdle

SpecChildOrder == InitChildOrder /\ [][NextReconstruct]_vars

\* The child order is computed.
Ordered == rec.pc \in {"items", "encode", "done", "panic"}

\* The first bit of collection c in the report (rid, rt), as the ordering
\* step reads it.
FirstBitOf(c, rid, rt) == rec.coll_bit_range[<<c, rid, rt>>].first_bit

\* The children of collection c are stored in ascending order of first_bit:
\* of two children that both have bits in a report, the one stored first has
\* the smaller first_bit.
ChildrenAscending(c) ==
    \A i, j \in 0..(rec.coll_number_of_direct_childs[c] - 1) :
      \A rid \in RecReportIds, rt \in ReportTypes :
        LET a == FirstBitOf(rec.coll_child_order[<<c, i>>], rid, rt)
            b == FirstBitOf(rec.coll_child_order[<<c, j>>], rid, rt)
        IN  (i < j /\ a # None /\ b # None) => a.val <= b.val

\* C21 as stated: after the child-ordering step the children of every
\* collection, however many, are stored in ascending order of first_bit.
\* Refuted by a collection with three children: the step makes one pass of
\* adjacent swaps per report, which does not sort three elements.
C21_AsStated ==
    Ordered => \A c \in DOMAIN rec.link_collection_nodes : ChildrenAscending(c)

\* With at most two children per collection the order is ascending.
C21_UpToTwoChildren ==
    Ordered =>
        \A c \in DOMAIN rec.link_collection_nodes :
            rec.coll_number_of_direct_childs[c] <= 2 => ChildrenAscending(c)

(***************************************************************************)
(* SpecPadding: the two last steps of reconstruct_descriptor, the main     *)
(* items of the caps and the padding items, on preparsed data without      *)
(* alias collections and alias usages.                                     *)
(***************************************************************************)
\* Caps of the preparsed data drawn.
MaxPadCaps == 2

\* u16 subtraction: the difference, or what the build makes of an overflow
\* (a panic with overflow checks, the wrapped value without).
U16Sub(a, b, overflow_checks) ==
    IF a >= b THEN Ok(a - b)
    ELSE IF overflow_checks THEN Panic
    ELSE Ok(a - b + 65536)

\* The trees drawn: no alias collections.
PaddingTrees ==
    { t \in LinkCollectionTrees : \A i \in DOMAIN t : ~t[i].is_alias }

\* The caps drawn: fields of 4 or 8 bits that start at a multiple of 4 in
\* the first two bytes of a report.
PaddingCapChoices(n) ==
    [link_collection : 0..(n - 1), report_id : RecReportIds, rt : {"Input", "Output"},
     byte_position : {1, 2}, bit_position : {0, 4}, report_size : {4, 8},
     report_count : {1}]

\* Two fields of one report do not share a bit.
Disjoint(a, b) ==
    \/ a.report_id # b.report_id
    \/ a.rt # b.rt
    \/ cap_last_bit(a) < cap_first_bit(b)
    \/ cap_last_bit(b) < cap_first_bit(a)

\* The caps array: Input caps before Output caps, no two sharing a bit.
PaddingCapLists(n) ==
    UNION { { l \in [1..k -> PaddingCapChoices(n)] :
                /\ \A i \in 1..(k - 1) : RtIndex(l[i].rt) <= RtIndex(l[i + 1].rt)
                /\ \A i, j \in 1..k : i # j => Disjoint(l[i], l[j]) } :
            k \in 1..MaxPadCaps }

\* MainItemNode::new for a Cap or Padding item.
MainItemNode_new_item(first_bit, last_bit, node_type, caps_index, collection_index, main_item_type, report_id) ==
    [first_bit |-> first_bit, last_bit |-> last_bit, node_type |-> node_type,
     caps_index |-> caps_index, collection_index |-> collection_index,
     main_item_type |-> main_item_type, report_id |-> report_id]

\* The place of the Collection or CollectionEnd item of collection c, which
\* coll_begin_lookup and coll_end_lookup point at.
PlaceOfCollectionItem(items, c, type) ==
    CHOOSE k \in 1..Len(items) : items[k] = MainItemNode_new(c, type)

RECURSIVE search_list(_, _, _, _, _)
\* search_list: from the item at place at, the last item whose successor is
\* neither a collection boundary nor an item of the report that ends at or
\* after search_bit; -1 when the list ends first (unwrap of None).
search_list(search_bit, main_item_type, report_id, items, at) ==
    IF at >= Len(items) THEN -1
    ELSE LET next == items[at + 1]
         IN  IF /\ next.main_item_type \notin {"Collection", "CollectionEnd"}
                /\ ~(/\ next.last_bit >= search_bit
                     /\ next.report_id = report_id
                     /\ next.main_item_type = main_item_type)
             THEN search_list(search_bit, main_item_type, report_id, items, at + 1)
             ELSE at

\* The items with one more right after place at.
InsertAfter(items, at, item) ==
    SubSeq(items, 1, at) \o <<item>> \o SubSeq(items, at + 1, Len(items))

RECURSIVE cap_section(_, _, _, _, _, _, _)
\* The loop over the children of the cap's collection: the item the search
\* starts at, the Collection item or the CollectionEnd of the last child
\* that does not begin after the cap.
cap_section(items, caps, order, range, direct_childs, child_idx, coll_begin) ==
    IF child_idx >= direct_childs[caps.link_collection] THEN coll_begin
    ELSE LET child == order[<<caps.link_collection, child_idx>>]
             first == range[<<child, caps.report_id, caps.rt>>].first_bit
         IN  IF cap_first_bit(caps) < (IF first = None THEN 0 ELSE first.val)
             THEN coll_begin
             ELSE cap_section(items, caps, order, range, direct_childs, child_idx + 1,
                              PlaceOfCollectionItem(items, child, "CollectionEnd"))

RECURSIVE cap_items(_, _, _, _, _, _)
\* The loops over the report types and the caps: every cap is inserted at
\* its bit position in its collection.  The list, or Panic.
cap_items(items, caps_list, caps_idx, order, range, direct_childs) ==
    IF caps_idx > Len(caps_list) THEN Ok(items)
    ELSE LET caps == caps_list[caps_idx]
             coll_begin ==
                 cap_section(items, caps, order, range, direct_childs, 0,
                     PlaceOfCollectionItem(items, caps.link_collection, "Collection"))
             list_node == search_list(cap_first_bit(caps), caps.rt, caps.report_id,
                                      items, coll_begin)
         IN  IF list_node = -1 THEN Panic
             ELSE cap_items(
                      InsertAfter(items, list_node,
                          MainItemNode_new_item(cap_first_bit(caps), cap_last_bit(caps),
                              "Cap", caps_idx - 1, caps.link_collection, caps.rt,
                              caps.report_id)),
                      caps_list, caps_idx + 1, order, range, direct_childs)

\* The place of an item after an insertion right after place at.
Shifted(place, at) == IF place > at THEN place + 1 ELSE place

\* The keys of last_bit_position and last_report_item_lookup.
ReportKeys == ReportTypes \X RecReportIds

\* One turn of the loop over the list (lines 384-403) at place cur.
padding_gap_step(p, overflow_checks) ==
    LET list == p.items[p.cur]
        key == <<list.main_item_type, list.report_id>>
        lbp == p.last_bit_position[key]
        lrip == p.last_report_item_lookup[key]
        gap == /\ lbp + 1 # list.first_bit
               /\ lrip # 0
               /\ p.items[lrip].first_bit # list.first_bit
        list_node == search_list(lbp, list.main_item_type, list.report_id, p.items, lrip)
        pad_last == U16Sub(list.first_bit, 1, overflow_checks)
        at == IF gap THEN list_node ELSE Len(p.items)
    IN  IF list.main_item_type \notin ReportTypes THEN [p EXCEPT !.cur = @ + 1]
        ELSE IF gap /\ (list_node = -1 \/ pad_last = Panic) THEN [p EXCEPT !.panic = TRUE]
        ELSE [p EXCEPT
                !.items = IF gap
                          THEN InsertAfter(@, at,
                                   MainItemNode_new_item((lbp + 1) % 65536, pad_last.val,
                                       "Padding", -1, 0, list.main_item_type,
                                       list.report_id))
                          ELSE @,
                !.last_bit_position = [@ EXCEPT ![key] = list.last_bit],
                !.last_report_item_lookup =
                    [k \in ReportKeys |->
                        IF k = key THEN Shifted(p.cur, at) ELSE Shifted(@[k], at)],
                !.cur = Shifted(p.cur + 1, at)]

RECURSIVE padding_gaps(_, _)
\* while let Some(next) = list.next.get(): every item but the last.
padding_gaps(p, overflow_checks) ==
    IF p.panic \/ p.cur >= Len(p.items) THEN p
    ELSE padding_gaps(padding_gap_step(p, overflow_checks), overflow_checks)

\* The order the loops over the report types and the report ids visit the
\* reports in (lines 406-407).
ReportKeysOrder ==
    LET ids == SeqOfSet(RecReportIds)
    IN  [k \in 1..(3 * Len(ids)) |->
            <<ReportTypeValues[((k - 1) \div Len(ids)) + 1], ids[((k - 1) % Len(ids)) + 1]>>]

RECURSIVE padding_tails(_, _)
\* The padding at the end of every report that does not end on a byte.
padding_tails(p, k) ==
    IF k > Len(ReportKeysOrder) THEN p
    ELSE LET key == ReportKeysOrder[k]
             lbp == p.last_bit_position[key]
             lrip == p.last_report_item_lookup[key]
             padding == 8 - ((lbp + 1) % 8)
         IN  IF lrip # 0 /\ padding < 8
             THEN padding_tails(
                    [p EXCEPT
                       !.items = InsertAfter(@, lrip,
                                    MainItemNode_new_item(lbp + 1, lbp + padding,
                                        "Padding", -1, 0, key[1], key[2])),
                       !.last_report_item_lookup =
                           [q \in ReportKeys |-> Shifted(@[q], lrip)]],
                    k + 1)
             ELSE padding_tails(p, k + 1)

\* The padding step: the list with the Padding items, or Panic.
padding_items(items, overflow_checks) ==
    LET p == padding_tails(
                 padding_gaps([items |-> items, cur |-> 1, panic |-> FALSE,
                               last_bit_position |-> [k \in ReportKeys |-> -1],
                               last_report_item_lookup |-> [k \in ReportKeys |-> 0]],
                              overflow_checks),
                 1)
    IN  IF p.panic THEN Panic ELSE Ok(p.items)

\* The state of reconstruct_descriptor when the Collection items are listed.
AfterCollectionItems(nodes, caps_list) ==
    LET range0 == caps_bit_ranges([key \in RangeKeys(Cardinality(DOMAIN nodes))
                                     |-> BitRange_default], caps_list)
        lv == collection_levels(nodes)
        range == propagate_levels(range0, nodes, lv.coll_levels, lv.max_coll_level - 1)
        ord == child_collection_order(nodes, range, lv.coll_number_of_direct_childs)
        it == collection_items(nodes, ord.coll_child_order, lv.coll_number_of_direct_childs)
    IN  [pc |-> "main_items",
         link_collection_nodes |-> nodes,
         caps_list |-> caps_list,
         coll_bit_range |-> range,
         coll_levels |-> lv.coll_levels,
         coll_number_of_direct_childs |-> lv.coll_number_of_direct_childs,
         max_coll_level |-> lv.max_coll_level,
         coll_child_order |-> ord.coll_child_order,
         main_item_list |-> it.items,
         overflow_checks |-> FALSE,
         descriptor |-> None]

InitPadding ==
    /\ \E nodes \in PaddingTrees :
         \E caps_list \in PaddingCapLists(Cardinality(DOMAIN nodes)) :
           \E overflow_checks \in BOOLEAN :
             rec = [AfterCollectionItems(nodes, caps_list)
                      EXCEPT !.overflow_checks = overflow_checks]
    /\ ctx = IdleValue
    /\ enc = IdleValue
    /\ opn = IdleValue
    /\ ParseIdle
    /\ ScanIdle
    /\ DevIdle

\* The Input, Output and Feature items of the caps (lines 307-369).
CapMainItems ==
    /\ rec.pc = "main_items"
    /\ LET r == cap_items(rec.main_item_list, rec.caps_list, 1, rec.coll_child_order,
                          rec.coll_bit_range, rec.coll_number_of_direct_childs)
       IN  rec' = [rec EXCEPT !.pc = IF r = Panic THEN "panic" ELSE "padding",
                              !.main_item_list = IF r = Panic THEN @ ELSE r.val]
    /\ ReconstructOnly

\* The Padding items (lines 379-424); the list is returned.
PaddingItems ==
    /\ rec.pc = "padding"
    /\ LET r == padding_items(rec.main_item_list, rec.overflow_checks)
       IN  rec' = [rec EXCEPT !.pc = IF r = Panic THEN "panic" ELSE "returned",
                              !.main_item_list = IF r = Panic THEN @ ELSE r.val]
    /\ ReconstructOnly

NextPadding == CapMainItems \/ PaddingItems

SpecPadding == InitPadding /\ [][NextPadding]_vars

(***************************************************************************)
(* Claim C22: the Padding items.                                           *)
(***************************************************************************)
\* The Cap and Padding items of one report, in the order of the list.
RECURSIVE ReportItems(_, _, _)
ReportItems(items, rt, rid) ==
    IF items = <<>> THEN <<>>
    ELSE IF Head(items).main_item_type = rt /\ Head(items).report_id = rid
    THEN <<Head(items)>> \o ReportItems(Tail(items), rt, rid)
    ELSE ReportItems(Tail(items), rt, rid)

\* The items of a report cover a contiguous bit range without overlap and
\* end on a byte boundary, with a Padding item at the tail only when the
\* caps do not end on one.
WellPadded(s) ==
    /\ \A i \in 1..Len(s) : s[i].first_bit <= s[i].last_bit
    /\ \A i \in 1..(Len(s) - 1) : s[i + 1].first_bit = s[i].last_bit + 1
    /\ (s[Len(s)].last_bit + 1) % 8 = 0
    /\ s[Len(s)].node_type = "Padding" => s[Len(s)].first_bit % 8 # 0

\* The reports that have a cap.
ReportsWithCaps ==
    { <<rec.caps_list[i].rt, rec.caps_list[i].report_id>> : i \in 1..Len(rec.caps_list) }

\* C22 as stated: the padding step ends, and after it the Cap and Padding
\* items of every report with a cap cover a contiguous bit range without
\* overlap, every gap between consecutive caps filled by a Padding item, the
\* covered bits end on a byte boundary, and no Padding item is at the tail
\* of a report that ends on one already.
C22_AsStated ==
    /\ rec.pc # "panic"
    /\ rec.pc = "returned" =>
          \A k \in ReportsWithCaps :
              WellPadded(ReportItems(rec.main_item_list, k[1], k[2]))

(***************************************************************************)
(* SpecEncoder: encode_descriptor of descriptor/encoder.rs on a list of    *)
(* main items, one item of the list per step.                              *)
(***************************************************************************)
\* Items between the Collection and the CollectionEnd of collection 0.
MaxBodyItems == 2

\* Caps of the preparsed data drawn.
EncoderCaps == 2

\* The caps drawn: single usages without designator and string index.
EncoderCapChoices ==
    [is_button_cap : BOOLEAN, is_range : {FALSE}, usage_page : {1, 2},
     report_id : {0, 1}, usage : {1}, bit_field : {2},
     logical_min : {0}, logical_max : {1},
     physical_min : {0}, physical_max : {0, 1},
     units_exp : {0}, units : {0, 1},
     report_size : {1}, report_count : {1},
     data_index_min : {0}, data_index_max : {0}]

\* The link collection nodes: collection 0 and its child, collection 1.
EncoderNodes == LinkCollectionNodes(2, [i \in {1} |-> 0], FALSE, [i \in {1} |-> FALSE])

\* The items a list may hold between Collection(0) and CollectionEnd(0): the
\* Input item of a cap, a Padding item, and the Collection, CollectionEnd
\* and Delimiter items of collection 1.
BodyItems ==
    { MainItemNode_new_item(i - 1, i - 1, "Cap", i - 1, 0, "Input", 0) : i \in 1..EncoderCaps }
    \cup { MainItemNode_new_item(4, 7, "Padding", -1, 0, "Input", 0) }
    \cup { MainItemNode_new_item(0, 0, "Collection", 0, 1, t, 0) :
            t \in {"Collection", "CollectionEnd", "DelimiterOpen", "DelimiterUsage",
                   "DelimiterClose"} }

MainItemLists ==
    { <<MainItemNode_new_item(0, 0, "Collection", 0, 0, "Collection", 0)>> \o body
        \o <<MainItemNode_new_item(0, 0, "Collection", 0, 0, "CollectionEnd", 0)>> :
        body \in UNION { [1..k -> BodyItems] : k \in 0..MaxBodyItems } }

\* The main item of a report type.
MainItemOf(rt) ==
    CASE rt = "Input" -> "MainInput"
      [] rt = "Output" -> "MainOutput"
      [] rt = "Feature" -> "MainFeature"

\* The writes of a Padding item (lines 93-117).
encode_padding(e, current) ==
    [e EXCEPT
       !.report_count = 0,
       !.written = @ \o << <<"GlobalReportSize", current.last_bit - current.first_bit + 1>>,
                           <<"GlobalReportCount", 1>>,
                           <<MainItemOf(current.main_item_type), 3>> >>]

\* encode_cap_head with the "Report ID" item written for every cap.
encode_cap_head_always(e, caps) ==
    [e EXCEPT
       !.last_report_id = caps.report_id,
       !.last_usage_page = caps.usage_page,
       !.inhibit_write_of_usage = FALSE,
       !.report_count = IF caps.is_button_cap /\ caps.is_range
                        THEN @ + caps.data_index_max - caps.data_index_min ELSE @,
       !.written = @
           \o << <<"GlobalReportId", caps.report_id>> >>
           \o (IF caps.usage_page # e.last_usage_page
               THEN << <<"GlobalUsagePage", caps.usage_page>> >> ELSE <<>>)
           \o (IF e.inhibit_write_of_usage THEN <<>>
               ELSE << <<"LocalUsage", caps.usage>> >>)]

\* "Report ID" and "Usage Page" of a cap, written when changed, and its
\* usage (lines 122-147 and 241-264).
encode_cap_head(e, caps) ==
    [e EXCEPT
       !.last_report_id = caps.report_id,
       !.last_usage_page = caps.usage_page,
       !.inhibit_write_of_usage = FALSE,
       !.report_count = IF caps.is_button_cap /\ caps.is_range
                        THEN @ + caps.data_index_max - caps.data_index_min ELSE @,
       !.written = @
           \o (IF e.last_report_id # caps.report_id
               THEN << <<"GlobalReportId", caps.report_id>> >> ELSE <<>>)
           \o (IF caps.usage_page # e.last_usage_page
               THEN << <<"GlobalUsagePage", caps.usage_page>> >> ELSE <<>>)
           \o (IF e.inhibit_write_of_usage THEN <<>>
               ELSE << <<"LocalUsage", caps.usage>> >>)]

\* next.is_some_and(..) of the button arm (lines 176-185).
same_button_field(current, next, caps, caps_list) ==
    /\ next # None
    /\ next.val.main_item_type = current.main_item_type
    /\ next.val.node_type = "Cap"
    /\ ~caps.is_range
    /\ ~caps_list[next.val.caps_index + 1].is_range
    /\ caps_list[next.val.caps_index + 1].is_button_cap
    /\ caps_list[next.val.caps_index + 1].usage_page = caps.usage_page
    /\ caps_list[next.val.caps_index + 1].report_id = caps.report_id
    /\ caps_list[next.val.caps_index + 1].bit_field = caps.bit_field

\* The button arm (lines 118-237).
encode_button(e, current, next, caps, caps_list) ==
    LET h == encode_cap_head(e, caps)
        simple == caps.logical_min = 0 /\ caps.logical_max = 0
    IN  IF same_button_field(current, next, caps, caps_list)
        THEN [h EXCEPT !.report_count =
                 IF next.val.first_bit # current.first_bit THEN @ + 1 ELSE @]
        ELSE [h EXCEPT
                !.last_physical_min = 0,
                !.last_physical_max = 0,
                !.last_unit_exponent = 0,
                !.last_unit = 0,
                !.report_count = 0,
                !.written = @
                    \o << <<"GlobalLogicalMinimum", IF simple THEN 0 ELSE caps.logical_min>>,
                          <<"GlobalLogicalMaximum", IF simple THEN 1 ELSE caps.logical_max>>,
                          <<"GlobalReportSize", caps.report_size>>,
                          <<"GlobalReportCount",
                            IF caps.is_range THEN caps.report_count
                            ELSE caps.report_count + h.report_count>> >>
                    \o (IF h.last_physical_min # 0
                        THEN << <<"GlobalPhysicalMinimum", 0>> >> ELSE <<>>)
                    \o (IF h.last_physical_max # 0
                        THEN << <<"GlobalPhysicalMaximum", 0>> >> ELSE <<>>)
                    \o (IF h.last_unit_exponent # 0
                        THEN << <<"GlobalUnitExponent", 0>> >> ELSE <<>>)
                    \o (IF h.last_unit # 0 THEN << <<"GlobalUnit", 0>> >> ELSE <<>>)
                    \o << <<MainItemOf(current.main_item_type), caps.bit_field>> >>]

\* next.is_some_and(..) of the value arm (lines 285-307).
same_value_field(current, next, caps, caps_list) ==
    /\ next # None
    /\ next.val.main_item_type = current.main_item_type
    /\ next.val.node_type = "Cap"
    /\ LET next_caps == caps_list[next.val.caps_index + 1]
       IN  /\ ~next_caps.is_button_cap
           /\ ~caps.is_range
           /\ ~next_caps.is_range
           /\ next_caps.usage_page = caps.usage_page
           /\ next_caps.logical_min = caps.logical_min
           /\ next_caps.logical_max = caps.logical_max
           /\ next_caps.physical_min = caps.physical_min
           /\ next_caps.physical_max = caps.physical_max
           /\ next_caps.units_exp = caps.units_exp
           /\ next_caps.units = caps.units
           /\ next_caps.report_size = caps.report_size
           /\ next_caps.report_id = caps.report_id
           /\ next_caps.bit_field = caps.bit_field
           /\ next_caps.report_count = 1
           /\ caps.report_count = 1

\* The value arm (lines 238-386).
encode_value(e, current, next, caps0, caps_list) ==
    LET h == encode_cap_head(e, caps0)
        caps == IF (caps0.bit_field % 4) \div 2 = 0
                THEN [caps0 EXCEPT !.report_count =
                          caps0.data_index_max - caps0.data_index_min + 1]
                ELSE caps0
        physical == \/ h.last_physical_min # caps.physical_min
                    \/ h.last_physical_max # caps.physical_max
    IN  IF same_value_field(current, next, caps, caps_list)
        THEN [h EXCEPT !.report_count = @ + 1]
        ELSE [h EXCEPT
                !.last_physical_min = caps.physical_min,
                !.last_physical_max = caps.physical_max,
                !.last_unit_exponent = caps.units_exp,
                !.last_unit = caps.units,
                !.report_count = 0,
                !.written = @
                    \o << <<"GlobalLogicalMinimum", caps.logical_min>>,
                          <<"GlobalLogicalMaximum", caps.logical_max>> >>
                    \o (IF physical
                        THEN << <<"GlobalPhysicalMinimum", caps.physical_min>>,
                                <<"GlobalPhysicalMaximum", caps.physical_max>> >>
                        ELSE <<>>)
                    \o (IF h.last_unit_exponent # caps.units_exp
                        THEN << <<"GlobalUnitExponent", caps.units_exp>> >> ELSE <<>>)
                    \o (IF h.last_unit # caps.units
                        THEN << <<"GlobalUnit", caps.units>> >> ELSE <<>>)
                    \o << <<"GlobalReportSize", caps.report_size>>,
                          <<"GlobalReportCount", caps.report_count + h.report_count>>,
                          <<MainItemOf(current.main_item_type), caps.bit_field>> >>]

\* One turn of the loop of encode_descriptor: the match on the item.
encode_main_item(e, current, next, caps_list, nodes) ==
    IF current.main_item_type \in {"Collection", "CollectionEnd", "DelimiterOpen",
                                   "DelimiterUsage", "DelimiterClose"}
    THEN encode_item(e, current, nodes)
    ELSE IF current.node_type = "Padding" THEN encode_padding(e, current)
    ELSE IF caps_list[current.caps_index + 1].is_button_cap
    THEN encode_button(e, current, next, caps_list[current.caps_index + 1], caps_list)
    ELSE encode_value(e, current, next, caps_list[current.caps_index + 1], caps_list)

\* The locals of encode_descriptor before the loop (lines 15-24).
encoder_locals ==
    [last_report_id |-> 0, last_usage_page |-> 0, last_physical_min |-> 0,
     last_physical_max |-> 0, last_unit_exponent |-> 0, last_unit |-> 0,
     inhibit_write_of_usage |-> FALSE, report_count |-> 0, written |-> <<>>]

InitEncoder ==
    /\ \E main_item_list \in MainItemLists,
          caps_list \in [1..EncoderCaps -> EncoderCapChoices] :
          rec = [pc |-> "encoding", main_item_list |-> main_item_list,
                 caps_list |-> caps_list, link_collection_nodes |-> EncoderNodes,
                 at |-> 1, e |-> encoder_locals]
    /\ ctx = IdleValue
    /\ enc = IdleValue
    /\ opn = IdleValue
    /\ ParseIdle
    /\ ScanIdle
    /\ DevIdle

\* The loop takes the next item of the list together with the one after it.
EncodeMainItem ==
    /\ rec.pc = "encoding"
    /\ rec.at <= Len(rec.main_item_list)
    /\ rec' = [rec EXCEPT
                 !.e = encode_main_item(@, rec.main_item_list[rec.at],
                           IF rec.at < Len(rec.main_item_list)
                           THEN Some(rec.main_item_list[rec.at + 1]) ELSE None,
                           rec.caps_list, rec.link_collection_nodes),
                 !.at = @ + 1]
    /\ ReconstructOnly

\* The list is at its end: writer.finish().
EncoderFinish ==
    /\ rec.pc = "encoding"
    /\ rec.at > Len(rec.main_item_list)
    /\ rec' = [rec EXCEPT !.pc = "finished"]
    /\ ReconstructOnly

NextEncoder == EncodeMainItem \/ EncoderFinish

SpecEncoder == InitEncoder /\ [][NextEncoder]_vars

(***************************************************************************)
(* Claims C23 and C29: the global items the encoder writes.                *)
(***************************************************************************)
\* The global items the encoder is said to write only when they change, and
\* those of them that start from the default 0.
TrackedGlobals ==
    {"GlobalUsagePage", "GlobalReportId", "GlobalLogicalMinimum", "GlobalLogicalMaximum",
     "GlobalPhysicalMinimum", "GlobalPhysicalMaximum", "GlobalUnitExponent",
     "GlobalUnit", "GlobalReportSize", "GlobalReportCount"}
DefaultZeroGlobals ==
    {"GlobalUsagePage", "GlobalReportId", "GlobalPhysicalMinimum",
     "GlobalPhysicalMaximum", "GlobalUnitExponent", "GlobalUnit"}

\* The places before j where an item of the kind of written[j] was written.
EarlierOfKind(written, j) == { i \in 1..(j - 1) : written[i][1] = written[j][1] }

\* The item written at place j changes the value of its kind.
ChangesValue(written, j) ==
    LET earlier == EarlierOfKind(written, j)
    IN  IF earlier = {}
        THEN written[j][1] \in DefaultZeroGlobals => written[j][2] # 0
        ELSE written[j][2] #
                written[CHOOSE i \in earlier : \A k \in earlier : k <= i][2]

PhysicalPairChanges(written, j) ==
    \/ ChangesValue(written, j)
    \/ /\ written[j][1] = "GlobalPhysicalMinimum"
       /\ j < Len(written)
       /\ written[j + 1][1] = "GlobalPhysicalMaximum"
       /\ ChangesValue(written, j + 1)
    \/ /\ written[j][1] = "GlobalPhysicalMaximum"
       /\ j > 1
       /\ written[j - 1][1] = "GlobalPhysicalMinimum"
       /\ ChangesValue(written, j - 1)

UsagePagesWritten ==
    { j \in 1..Len(rec.e.written) : rec.e.written[j][1] = "GlobalUsagePage" }

\* C29 as stated: the usage page the encoder tracks is the one in force in
\* the items written: the value of the last Usage Page item, 0 before the
\* first.  Refuted: a DelimiterOpen item writes the collection type as the
\* usage page and records the collection's usage page.
C29_AsStated ==
    rec.e.last_usage_page =
        IF UsagePagesWritten = {} THEN 0
        ELSE rec.e.written[CHOOSE j \in UsagePagesWritten :
                              \A k \in UsagePagesWritten : k <= j][2]

\* The same for lists without DelimiterOpen items.
C29_WithoutDelimiterOpen ==
    (\A k \in 1..Len(rec.main_item_list) :
        rec.main_item_list[k].main_item_type # "DelimiterOpen") => C29_AsStated

(***************************************************************************)
(* SpecDeviceInfo: get_internal_info and get_usb_info of                    *)
(* windows_native/device_info.rs with the U16Str helpers of string.rs.     *)
(* A string is the sequence of its characters; a U16Str ends with NUL.     *)
(***************************************************************************)
\* Compatible ids in the string list drawn.
MaxCompatibleIds == 2

NUL == "NUL"

LowerCase == <<"a", "b", "c", "d", "e", "f", "g", "h", "i", "j", "k", "l", "m",
               "n", "o", "p", "q", "r", "s", "t", "u", "v", "w", "x", "y", "z">>
UpperCase == <<"A", "B", "C", "D", "E", "F", "G", "H", "I", "J", "K", "L", "M",
               "N", "O", "P", "Q", "R", "S", "T", "U", "V", "W", "X", "Y", "Z">>

to_ascii_uppercase(c) ==
    IF \E i \in 1..Len(LowerCase) : LowerCase[i] = c
    THEN UpperCase[CHOOSE i \in 1..Len(LowerCase) : LowerCase[i] = c]
    ELSE c

eq_ignore_ascii_case(l, r) == to_ascii_uppercase(l) = to_ascii_uppercase(r)

\* U16Str::as_slice: the characters without the terminating NUL.
as_slice(u16str) == SubSeq(u16str, 1, Len(u16str) - 1)

\* A string with its terminating NUL.
U16String_of(chars) == Append(chars, NUL)

make_uppercase_ascii(u16str) ==
    U16String_of([i \in 1..(Len(u16str) - 1) |-> to_ascii_uppercase(u16str[i])])

\* zip ends with the shorter of the two sides; all holds on what is left.
starts_with_ignore_case(u16str, pattern) ==
    \A i \in 1..Min(Len(as_slice(u16str)), Len(pattern)) :
        eq_ignore_ascii_case(as_slice(u16str)[i], pattern[i])

RECURSIVE split_inclusive(_)
\* slice.split_inclusive(is_null): the pieces, each with its NUL.
split_inclusive(slice) ==
    IF slice = <<>> THEN <<>>
    ELSE IF \E i \in 1..Len(slice) : slice[i] = NUL
    THEN LET i == CHOOSE i \in 1..Len(slice) :
                     slice[i] = NUL /\ \A k \in 1..(i - 1) : slice[k] # NUL
         IN  <<SubSeq(slice, 1, i)>> \o split_inclusive(SubSeq(slice, i + 1, Len(slice)))
    ELSE <<slice>>

from_slice_list(slice) == split_inclusive(slice)

\* The first place (from 0) of the pattern in the string.
find_index(u16str, pattern) ==
    LET s == as_slice(u16str)
        hits == { i \in 0..(Len(s) - Len(pattern)) :
                    \A k \in 1..Len(pattern) : s[i + k] = pattern[k] }
    IN  IF hits = {} THEN None ELSE Some(CHOOSE i \in hits : \A k \in hits : i <= k)

HexDigits == <<"0", "1", "2", "3", "4", "5", "6", "7", "8", "9",
               "A", "B", "C", "D", "E", "F">>

IsHexDigit(c) == \E d \in 1..Len(HexDigits) : HexDigits[d] = to_ascii_uppercase(c)

to_digit(c) == (CHOOSE d \in 1..Len(HexDigits) : HexDigits[d] = to_ascii_uppercase(c)) - 1

RECURSIVE reduce_hex(_, _)
reduce_hex(acc, digits) ==
    IF digits = <<>> THEN acc
    ELSE reduce_hex(acc * 16 + to_digit(Head(digits)), Tail(digits))

extract_int_token_value(u16str, token) ==
    LET found == find_index(u16str, token)
        rest == SubSeq(as_slice(u16str), found.val + Len(token) + 1,
                       Len(as_slice(u16str)))
        n == CHOOSE n \in 0..Len(rest) :
                 /\ \A k \in 1..n : IsHexDigit(rest[k])
                 /\ n < Len(rest) => ~IsHexDigit(rest[n + 1])
    IN  IF found = None THEN None
        ELSE IF n = 0 THEN None
        ELSE Some(reduce_hex(0, SubSeq(rest, 1, n)))

\* The arms of the match on a compatible id, in their order.
BusPrefixes ==
    << <<<<"U", "S", "B">>, "Usb">>,
       <<<<"B", "T", "H", "E", "N", "U", "M">>, "Bluetooth">>,
       <<<<"B", "T", "H", "L", "E", "D", "E", "V", "I", "C", "E">>, "BluetoothLE">>,
       <<<<"P", "N", "P", "0", "C", "5", "0">>, "I2c">>,
       <<<<"P", "N", "P", "0", "C", "5", "1">>, "Spi">> >>

compatible_bus_type(compatible_id) ==
    LET arms == { i \in 1..Len(BusPrefixes) :
                    starts_with_ignore_case(compatible_id, BusPrefixes[i][1]) }
    IN  IF arms = {} THEN None
        ELSE Some(BusPrefixes[CHOOSE i \in arms : \A k \in arms : i <= k][2])

\* filter_map(..).next().unwrap_or(Unknown) over the string list.
internal_bus_type(compatible_ids) ==
    LET ids == from_slice_list(compatible_ids)
        hits == { i \in 1..Len(ids) : compatible_bus_type(ids[i]) # None }
    IN  IF hits = {} THEN "Unknown"
        ELSE compatible_bus_type(ids[CHOOSE i \in hits : \A k \in hits : i <= k]).val

\* From<InternalBusType> for BusType.
BusType_from(value) == IF value = "BluetoothLE" THEN "Bluetooth" ELSE value

\* slice.rsplit(|c| *c != x).next(): what follows the last element that is
\* not x.
rsplit_ne_next(slice, x) ==
    LET seps == { i \in 1..Len(slice) : slice[i] # x }
    IN  IF seps = {} THEN slice
        ELSE SubSeq(slice, (CHOOSE i \in seps : \A k \in seps : k <= i) + 1, Len(slice))

\* iter().rposition(|c| *c != x): the last place (from 0) of an element that
\* is not x.
rposition_ne(slice, x) ==
    LET hits == { i \in 1..Len(slice) : slice[i] # x }
    IN  IF hits = {} THEN None
        ELSE Some((CHOOSE i \in hits : \A k \in hits : k <= i) - 1)

\* The start of the serial number in the instance id (lines 168-172).
serial_start(device_id) == rposition_ne(rsplit_ne_next(device_id, "&"), "\\")

\* The hardware ids, upper-cased one after the other (lines 129-142).
RECURSIVE hardware_id_tokens(_, _)
hardware_id_tokens(dev, ids) ==
    IF ids = <<>> THEN dev
    ELSE LET id == make_uppercase_ascii(Head(ids))
             rev == extract_int_token_value(id, <<"R", "E", "V", "_">>)
             mi == extract_int_token_value(id, <<"M", "I", "_">>)
             d1 == IF dev.release_number = 0 /\ rev # None
                   THEN [dev EXCEPT !.release_number = rev.val % 65536] ELSE dev
             d2 == IF d1.interface_number = -1 /\ mi # None
                   THEN [d1 EXCEPT !.interface_number = mi.val] ELSE d1
         IN  hardware_id_tokens(d2, Tail(ids))

\* A WinResult<()> together with the DeviceInfo the call leaves behind.
WinResult(ret, dev) == [ret |-> ret, dev |-> dev]

\* The node get_usb_info reads the hardware ids of: the parent of the node
\* above the HID interface when the instance id of that node has an IG_
\* token (lines 113-121).  Nodes are named by their depth.
xusb_dev_node(os) ==
    IF extract_int_token_value(make_uppercase_ascii(U16String_of(os.instance_id[1])),
                               <<"I", "G", "_">>) # None
    THEN 2 ELSE 1

\* The manufacturer string of the node when the device gave none (145-151).
usb_manufacturer(dev, os) ==
    IF dev.manufacturer_string = <<>>
    THEN [dev EXCEPT !.manufacturer_string = os.manufacturer] ELSE dev

\* The node of the USB device: the parent for an interface of a composite
\* device (lines 155-160).
usb_dev_node_of(dev, dev_node) ==
    IF dev.interface_number # -1 THEN dev_node + 1 ELSE dev_node

\* The serial number taken from the instance id at the start found (173).
serial_number_from(device_id, start, serial_number) ==
    IF start = None THEN serial_number
    ELSE SubSeq(device_id, start.val + 2, Len(device_id))

\* The serial number of the USB device node when the device gave none
\* (lines 154-175).
usb_serial_number(dev, usb_device_id) ==
    IF dev.serial_number = <<>>
    THEN [dev EXCEPT
            !.usb_device_id = Some(usb_device_id),
            !.serial_number = serial_number_from(usb_device_id,
                                                 serial_start(usb_device_id), @)]
    ELSE dev

\* The interface number of a device without MI_ token (lines 178-180).
usb_interface_number(dev) ==
    [dev EXCEPT !.interface_number = IF @ = -1 THEN 0 ELSE @]

\* get_usb_info after the hardware ids and the manufacturer: d is the
\* DeviceInfo they leave.
get_usb_info_serial(dev, d, dev_node, os) ==
    IF os.fail = "hardware_ids" THEN WinResult("Err", dev)
    ELSE IF os.fail = "usb_device_id" /\ d.serial_number = <<>> THEN WinResult("Err", d)
    ELSE WinResult("Ok", usb_interface_number(
             usb_serial_number(d, os.instance_id[usb_dev_node_of(d, dev_node)])))

get_usb_info(dev, os) ==
    get_usb_info_serial(
        dev,
        usb_manufacturer(hardware_id_tokens(dev, from_slice_list(os.hardware_ids)), os),
        xusb_dev_node(os), os)

\* get_ble_info: the serial number is the device address.
get_ble_info(dev, os) ==
    LET d1 == IF dev.manufacturer_string = <<>>
              THEN [dev EXCEPT !.manufacturer_string = os.manufacturer] ELSE dev
    IN  WinResult("Ok", IF d1.serial_number = <<>>
                        THEN [d1 EXCEPT !.serial_number = os.ble_address] ELSE d1)

\* get_internal_info from the match on the bus type on (lines 103-109).
get_bus_info(dev, bus_type, os) ==
    IF bus_type = "Usb" THEN get_usb_info(dev, os)
    ELSE IF bus_type = "BluetoothLE" THEN get_ble_info(dev, os)
    ELSE WinResult("Ok", dev)

\* dev.bus_type = bus_type.into()
set_bus_type(dev, bus_type) ==
    [dev EXCEPT !.bus_type = BusType_from(bus_type), !.internal_bus_type = bus_type]

\* get_internal_info with the bus type the compatible ids give.
get_internal_info_of(dev, bus_type, os) ==
    IF os.fail = "compatible_ids" THEN WinResult("Err", dev)
    ELSE get_bus_info(set_bus_type(dev, bus_type), bus_type, os)

\* get_device_info calls get_internal_info and ignores its error.
get_internal_info(dev, os) ==
    get_internal_info_of(dev, internal_bus_type(os.compatible_ids), os)

\* The DeviceInfo built from the HID attributes and strings (lines 48-64).
DeviceInfo_new(os) ==
    [serial_number |-> os.serial_number, release_number |-> 0,
     manufacturer_string |-> <<>>, interface_number |-> -1, bus_type |-> "Unknown",
     internal_bus_type |-> "Unknown", usb_device_id |-> None]

\* The compatible ids a device node may carry.
CompatibleIdChoices ==
    { <<"U", "S", "B", "\\", "C">>, <<"u", "s", "b">>, <<"U", "S">>,
      <<"B", "T", "H", "E", "N", "U", "M">>, <<"B", "T", "H", "L", "E">>,
      <<"P", "N", "P", "0", "C", "5", "1">>, <<"H", "I", "D">> }

RECURSIVE string_list(_)
\* A string list: every string with its NUL, and the NUL that ends the list.
string_list(ids) ==
    IF ids = <<>> THEN <<NUL>>
    ELSE U16String_of(Head(ids)) \o string_list(Tail(ids))

CompatibleIdLists ==
    { string_list(ids) :
        ids \in UNION { [1..n -> CompatibleIdChoices] : n \in 0..MaxCompatibleIds } }

\* The instance ids the parent of a device node may carry.
ParentInstanceIdChoices ==
    { <<"U", "\\", "V", "\\", "S", "N">>, <<"U", "\\", "S", "&">>, <<>> }

\* The instance ids a device node may carry.
InstanceIdChoices ==
    { <<"U", "\\", "V", "\\", "S", "N">>, <<"U", "\\", "V", "\\", "7", "&", "1">>,
      <<"U", "\\", "S", "&">>, <<"&", "&">>, <<"S">>, <<>>,
      <<"I", "G", "_", "1", "\\", "S">> }

HardwareIdLists ==
    { string_list(<< <<"R", "e", "v", "_", "1", "0", "&", "M", "I", "_", "0", "2">> >>),
      string_list(<< <<"V", "I", "D">>, <<"R", "E", "V", "_", "2">> >>),
      string_list(<<>>) }

WinFailures == {"none", "compatible_ids", "hardware_ids", "usb_device_id"}

InitDeviceInfo ==
    /\ \E compatible_ids \in CompatibleIdLists, hardware_ids \in HardwareIdLists,
          id1 \in InstanceIdChoices, id2 \in ParentInstanceIdChoices,
          serial_number \in {<<>>, <<"H">>}, fail \in WinFailures :
          rec = [pc |-> "get_device_info",
                 os |-> [compatible_ids |-> compatible_ids, hardware_ids |-> hardware_ids,
                         instance_id |-> <<id1, id2, <<"R", "\\", "0">> >>,
                         serial_number |-> serial_number, manufacturer |-> <<"M">>,
                         ble_address |-> <<"A", "D">>, fail |-> fail],
                 ret |-> None,
                 dev |-> None]
    /\ ctx = IdleValue
    /\ enc = IdleValue
    /\ opn = IdleValue
    /\ ParseIdle
    /\ ScanIdle
    /\ DevIdle

\* The call returns dev whatever get_internal_info returned.
device_info_returned(r, ret) == [r EXCEPT !.pc = "done", !.ret = ret.ret, !.dev = Some(ret.dev)]

\* get_device_info: let _ = get_internal_info(path, &mut dev); dev
GetInternalInfo ==
    /\ rec.pc = "get_device_info"
    /\ rec' = device_info_returned(rec, get_internal_info(DeviceInfo_new(rec.os), rec.os))
    /\ ReconstructOnly

NextDeviceInfo == GetInternalInfo

SpecDeviceInfo == InitDeviceInfo /\ [][NextDeviceInfo]_vars

(***************************************************************************)
(* Claims C24 and C30.                                                     *)
(***************************************************************************)
\* What follows the final backslash of an instance id.
AfterFinalBackslash(id) ==
    LET seps == { i \in 1..Len(id) : id[i] = "\\" }
    IN  IF seps = {} THEN id
        ELSE SubSeq(id, (CHOOSE i \in seps : \A k \in seps : k <= i) + 1, Len(id))

HasBackslash(id) == \E i \in 1..Len(id) : id[i] = "\\"

\* The serial number was looked up in an instance id with a backslash.
SerialFromInstanceId ==
    /\ rec.pc = "done"
    /\ rec.os.serial_number = <<>>
    /\ rec.dev.val.usb_device_id # None
    /\ HasBackslash(rec.dev.val.usb_device_id.val)

\* C24 as stated: for a USB device with an empty HID serial number, the
\* serial number is what follows the final backslash of the instance id of
\* the USB device node, and it stays empty when that part holds an '&'.
\* Refuted: the closures of rsplit and rposition test "not equal", so the
\* split is made at the last character that is not '&'.
C24_AsStated ==
    SerialFromInstanceId =>
        rec.dev.val.serial_number =
            LET tail == AfterFinalBackslash(rec.dev.val.usb_device_id.val)
            IN  IF \E i \in 1..Len(tail) : tail[i] = "&" THEN <<>> ELSE tail

\* What the code does: without a trailing '&' no serial number is taken;
\* with n trailing '&' the serial number is the instance id without its
\* first n characters.
C24_TrailingAmpersands ==
    (rec.pc = "done" /\ rec.os.serial_number = <<>> /\ rec.dev.val.usb_device_id # None) =>
        LET id == rec.dev.val.usb_device_id.val
            n == Len(rsplit_ne_next(id, "&"))
        IN  rec.dev.val.serial_number = IF n = 0 THEN <<>> ELSE SubSeq(id, n + 1, Len(id))

\* The compatible ids of the string list, each without its NUL.
CompatibleIds ==
    LET ids == from_slice_list(rec.os.compatible_ids)
    IN  { as_slice(ids[i]) : i \in 1..Len(ids) }

\* The id begins with the prefix, ignoring ASCII case.
BeginsWith(id, prefix) ==
    /\ Len(id) >= Len(prefix)
    /\ \A i \in 1..Len(prefix) : eq_ignore_ascii_case(id[i], prefix[i])

\* C30 as stated: the bus type is Usb (Bluetooth, I2c, Spi) only if a
\* compatible id begins with the prefix of that bus, and a device none of
\* whose ids begins with a prefix has bus type Unknown and interface number
\* -1.  Refuted: an id shorter than a prefix, and the empty string that
\* ends the list, match the first prefix they are a prefix of.
C30_AsStated ==
    (rec.pc = "done" /\ rec.os.fail = "none") =>
        /\ \A i \in 1..Len(BusPrefixes) :
             rec.dev.val.internal_bus_type = BusPrefixes[i][2] =>
                 \E id \in CompatibleIds : BeginsWith(id, BusPrefixes[i][1])
        /\ (\A i \in 1..Len(BusPrefixes) :
              \A id \in CompatibleIds : ~BeginsWith(id, BusPrefixes[i][1])) =>
                 /\ rec.dev.val.bus_type = "Unknown"
                 /\ rec.dev.val.interface_number = -1

\* What the code does: every string list ends with the empty string, which
\* matches the first arm, so no device is left with bus type Unknown.
C30_NeverUnknown ==
    (rec.pc = "done" /\ rec.ret = "Ok") => rec.dev.val.bus_type # "Unknown"

(***************************************************************************)
(* Claim C25: one overlapped ReadFile at a time on a Windows HidDevice.    *)
(***************************************************************************)
\* The read overlapped holds the report of a completed ReadFile that no call
\* has returned yet.
ReadUnconsumed ==
    /\ slot["read"].ops = 0
    /\ slot["read"].internal = "success"
    /\ SeqOf(slot["read"].buffer) > 0
    /\ \A i \in 1..Len(delivered) : delivered[i] # SeqOf(slot["read"].buffer)

\* C25: on a Windows HidDevice at most one ReadFile is in flight; a call
\* issues ReadFile only when it found the pending flag clear, and a clear
\* flag means that no read is in flight; while the device is open the flag
\* is set exactly when a read is in flight or has completed without a call
\* having taken its result.
C25_OneReadOutstanding ==
    backend = "windows" =>
        /\ slot["read"].ops <= 1
        /\ ReadFileIssued => ~last.pendingBefore
        /\ pc = "open" =>
             /\ read_pending =>
                  \/ slot["read"].ops = 1 /\ slot["read"].internal = "pending"
                  \/ slot["read"].ops = 0 /\ slot["read"].internal \in {"success", "error"}
             /\ (slot["read"].ops = 1 \/ ReadUnconsumed) => read_pending

\* A read_timeout found the read of an earlier call in flight, issued no
\* ReadFile, and its wait timed out: the one read is still in flight.
C25_Witness ==
    /\ backend = "windows"
    /\ pc = "open"
    /\ IsRead(last)
    /\ last.pendingBefore
    /\ ~Issued(last, "ReadFile")
    /\ WaitTimedOut(last)
    /\ read_pending
    /\ slot["read"].ops = 1

(***************************************************************************)
(* SpecThreads: HidApi::new and HidApi::disable_device_discovery called    *)
(* from several threads, with the Mutex of CONTEXT_STATE.                  *)
(***************************************************************************)
MaxThreads == 3
MaxCallsPerThread == 2

Threads == 1..MaxThreads

\* No thread holds the Mutex.
Unlocked == 0

\* Mutant: the guard is kept until the panic unwinds.
drop_state_kept(lock) == lock

\* core::mem::drop(state) before the panic.
drop_state(lock) == Unlocked

ThreadsOnly == UNCHANGED <<parseVars, scanVars, devVars, enc, rec, opn>>

InitThreads ==
    /\ \E build \in {"hidapi", "native"} :
         ctx = [build |-> build,
                state |-> CONTEXT_STATE_initial,
                lock |-> Unlocked,
                poisoned |-> FALSE,
                inits |-> 0,
                th |-> [t \in Threads |->
                          [pc |-> "idle", op |-> "none", calls |-> 0,
                           held_at_panic |-> FALSE, ret |-> None]]]
    /\ enc = IdleValue
    /\ rec = IdleValue
    /\ opn = IdleValue
    /\ ParseIdle
    /\ ScanIdle
    /\ DevIdle

\* A thread calls HidApi::new or HidApi::disable_device_discovery.
ThreadCalls(t, op) ==
    /\ ctx.th[t].pc = "idle"
    /\ ctx.th[t].calls < MaxCallsPerThread
    /\ ctx' = [ctx EXCEPT !.th[t] = [@ EXCEPT !.pc = "lock", !.op = op,
                                              !.calls = @ + 1, !.ret = None]]
    /\ ThreadsOnly

\* CONTEXT_STATE.lock().unwrap(): the thread waits for the Mutex; unwrap
\* panics, the guard in hand, when the Mutex is poisoned.
ThreadLocks(t) ==
    /\ ctx.th[t].pc = "lock"
    /\ ctx.lock = Unlocked
    /\ ctx' = IF ctx.poisoned
              THEN [ctx EXCEPT !.th[t] = [@ EXCEPT !.pc = "panicked",
                                                   !.held_at_panic = TRUE]]
              ELSE [ctx EXCEPT !.lock = t, !.th[t].pc = "locked"]
    /\ ThreadsOnly

\* HidApi::new with the lock: the initialization when the state is NotInit.
NewInitializes(t) ==
    /\ ctx.th[t].pc = "locked"
    /\ ctx.th[t].op = "new"
    /\ ctx.lock = t
    /\ \E ok \in HidInitResults(ctx.build) :
         ctx' = IF ctx.state.init_state = "NotInit" /\ ~ok
                THEN [ctx EXCEPT !.lock = Unlocked,
                                 !.th[t] = [@ EXCEPT !.pc = "idle",
                                                     !.ret = Err("InitializationError")]]
                ELSE [ctx EXCEPT !.state.init_state = "Init",
                                 !.inits = IF ctx.state.init_state = "NotInit"
                                           THEN @ + 1 ELSE @,
                                 !.th[t].pc = "add_devices"]
    /\ ThreadsOnly

\* HidApi::new, add_devices(0, 0) and the return, which drops the guard.
NewAddsDevices(t) ==
    /\ ctx.th[t].pc = "add_devices"
    /\ ctx.lock = t
    /\ \E enum \in Enumerations({}, 0, 0) :
         ctx' = [ctx EXCEPT !.lock = Unlocked,
                            !.th[t] = [@ EXCEPT
                                         !.pc = "idle",
                                         !.ret = IF IsOk(enum)
                                                 THEN Ok([device_list |-> enum.val])
                                                 ELSE enum]]
    /\ ThreadsOnly

\* disable_device_discovery with the lock: the state is changed and the
\* guard dropped at the return, or the guard is dropped for the panic.
DisableWithLock(t) ==
    /\ ctx.th[t].pc = "locked"
    /\ ctx.th[t].op = "disable_device_discovery"
    /\ ctx.lock = t
    /\ LET r == disable_device_discovery(ctx.state)
       IN  ctx' = [ctx EXCEPT !.state = r.state,
                              !.lock = IF r.panic THEN drop_state(@) ELSE Unlocked,
                              !.th[t] = [@ EXCEPT !.pc = IF r.panic THEN "panic" ELSE "idle",
                                                  !.ret = IF r.panic THEN None ELSE Ok(<<>>)]]
    /\ ThreadsOnly

\* panic!(..) of disable_device_discovery: a guard the thread still holds is
\* dropped while panicking, which poisons the Mutex.
DisablePanics(t) ==
    /\ ctx.th[t].pc = "panic"
    /\ ctx' = [ctx EXCEPT !.th[t] = [@ EXCEPT !.pc = "panicked",
                                              !.held_at_panic = (ctx.lock = t)],
                          !.poisoned = @ \/ ctx.lock = t,
                          !.lock = IF ctx.lock = t THEN Unlocked ELSE @]
    /\ ThreadsOnly

NextThreads ==
    \/ \E t \in Threads, op \in {"new", "disable_device_discovery"} : ThreadCalls(t, op)
    \/ \E t \in Threads : ThreadLocks(t)
    \/ \E t \in Threads : NewInitializes(t)
    \/ \E t \in Threads : NewAddsDevices(t)
    \/ \E t \in Threads : DisableWithLock(t)
    \/ \E t \in Threads : DisablePanics(t)

SpecThreads == InitThreads /\ [][NextThreads]_vars

\* C26: under every interleaving of new and disable_device_discovery calls
\* the initialization succeeds at most once, the state is Init from then on,
\* the Mutex is held by no thread that panics in disable_device_discovery and
\* is never poisoned, so that a later call acquires it.
C26_InitOnce ==
    /\ ctx.inits <= 1
    /\ ctx.inits = 1 <=> ctx.state.init_state = "Init"
    /\ ~ctx.poisoned
    /\ \A t \in Threads :
         /\ ctx.th[t].pc \in {"panic", "panicked"} => ctx.lock # t
         /\ ~ctx.th[t].held_at_panic
         /\ ctx.lock = t <=> ctx.th[t].pc \in {"locked", "add_devices"}

\* A disable_device_discovery panicked after another thread's new had
\* initialized, and a third thread's new then took the lock and found the
\* state Init.
C26_Witness ==
    /\ ctx.inits = 1
    /\ \E t \in Threads : ctx.th[t].pc = "panicked"
    /\ \E t \in Threads :
         /\ ctx.th[t].op = "new"
         /\ ctx.th[t].pc = "add_devices"
         /\ ctx.th[t].calls = 1
    /\ \E t \in Threads : ctx.th[t].op = "new" /\ IsOk(ctx.th[t].ret)

(***************************************************************************)
(* Claim C27: the usage iterator stays inside the descriptor buffer.       *)
(***************************************************************************)
\* The lengths of the slices from_slice may be given, by what they exceed:
\* the value array is ValueLen bytes (MAX_REPORT_DESCRIPTOR_SIZE), and
\* try_into::<u32>() fails above u32::MAX.
SliceLengths == {"within_value", "over_value", "over_u32"}

\* HidrawReportDescriptor::from_slice: the length is tested against u32
\* only, and desc.value[..value.len()] panics past the end of the array.
HidrawReportDescriptor_from_slice(len) ==
    CASE len = "over_u32" -> Err("HidApiError")
      [] len = "over_value" -> Panic
      [] len = "within_value" -> Ok("HidrawReportDescriptor")

\* C27 as stated: the iteration of usages() ends and never indexes or slices
\* outside the buffer.  Refuted: a long-item key in the last byte of the
\* buffer, or an item whose data ends past the buffer, makes
\* next_hid_usage panic.
C27_AsStated == iter.state # "panicked" /\ iter.pos <= ValueLen

\* The other half of C27 as stated: from_slice returns an error for a slice
\* longer than the buffer.  Refuted: it panics unless the length exceeds u32.
C27_FromSliceErrs ==
    iter.state = "done" =>
        \A len \in SliceLengths \ {"within_value"} :
            HidrawReportDescriptor_from_slice(len).tag = "Err"

\* What holds: a descriptor whose items all end inside the buffer is
\* iterated to its end without a panic, each call advancing the iterator.
C27_ItemsInsideBuffer == ~HasOverrun => C27_AsStated

(***************************************************************************)
(* Claim C28: get_device_info on the Linux backend.                        *)
(***************************************************************************)
\* C28 as stated: get_device_info of an opened device returns a DeviceInfo
\* or an error and never panics.  Refuted: for a node whose readable
\* descriptor yields no pair the vector is empty and info[0] panics.
C28_AsStated == dev_info.tag = "done" => dev_info.ret.tag \in {"Ok", "Err"}

\* What holds: get_device_info of a device opened from an entry of the
\* enumeration returns a DeviceInfo, or the error of the open.
C28_ListedEntries ==
    (dev_info.tag = "done" /\ dev_info.entry >= 1) => dev_info.ret.tag \in {"Ok", "Err"}

=============================================================================
